---- MODULE Spec2Model ----
(***************************************************************************)
(* Weather-Wizard: an expiring in-memory cache (cache_service.py), the     *)
(* OpenWeatherMap client (weather_service.py), the rule engine             *)
(* (ai_weather_service.py) and the Flask endpoints (app.py).               *)
(*                                                                         *)
(* Conventions of the model                                                *)
(*  - A text is a sequence of tokens.  Text that comes from outside (the   *)
(*    API key, a city, an upstream error message) is a sequence of         *)
(*    one-character tokens; a string literal of the source is one token    *)
(*    spelled as in the source.  OpenWeatherMap keys are hexadecimal, so   *)
(*    no key occurrence lies inside or across a literal of the source.     *)
(*  - An optional value (Python None or a value) is <<>> or <<v>>.         *)
(*  - time.time() is the variable now, in seconds; a call reads the clock  *)
(*    once, and the clock moves between calls (Tick).                      *)
(*  - Temperatures, wind speeds and rain volumes are in tenths of their    *)
(*    unit; severities are in 600ths (SevUnit), which represents every     *)
(*    severity the rules compute on such inputs exactly.                   *)
(***************************************************************************)
EXTENDS Integers, Sequences, FiniteSets, TLC

VARIABLES
    api_key,    \* app.py api_key / WeatherService.api_key / AIWeatherService.api_key
    expiry,     \* CacheService.expiry
    cache,      \* CacheService.cache: key -> [value, timestamp]
    now,        \* time.time()
    models,     \* AIWeatherService.models (the cities that have a model object)
    lastCall,   \* the operation that ran last, its arguments and what it returned
    logged,     \* the lines the last operation logged at warning or error level
    upstream,   \* the upstream requests the last operation made, in order
    setAt,      \* history: key -> <<time, value>> of the last cache.set of the key, or <<>>
    fetched,    \* history: <<what, city>> -> <<time, value>> of the last fetch stored, or <<>>
    threads     \* thread -> where it is in a cache method; empty when calls run one at a time

vars == <<api_key, expiry, cache, now, models, lastCall, logged, upstream, setAt, fetched,
          threads>>

None == <<>>
Some(v) == <<v>>

\* Calls run one at a time: no thread is inside a cache method.
NoThreads == [t \in {} |-> None]

(***************************************************************************)
(* Bounds of the model.                                                    *)
(***************************************************************************)
\* The clock is advanced at most MaxTicks times.
MaxTicks == 3

(***************************************************************************)
(* Program constants.                                                      *)
(***************************************************************************)
\* cache_service.py: def __init__(self, expiry=300)
DefaultExpiry == 300
\* app.py: CacheService(expiry=600)
AppExpiry == 600
\* One Tick of the clock: half the service's TTL, so that an entry is seen at an
\* age below the TTL, at exactly the TTL and above it.
TickSeconds == DefaultExpiry

(***************************************************************************)
(* Texts.                                                                  *)
(***************************************************************************)
\* Python: sub in s
Contains(s, sub) ==
    \E i \in 1..(Len(s) - Len(sub) + 1) : SubSeq(s, i, i + Len(sub) - 1) = sub

\* Python: s.replace(old, new), for a non-empty old: the occurrences of old are
\* found from the left, without overlap, and each becomes new.
RECURSIVE Replace(_, _, _)
Replace(s, old, new) ==
    IF Len(s) < Len(old) THEN s
    ELSE IF SubSeq(s, 1, Len(old)) = old
         THEN new \o Replace(SubSeq(s, Len(old) + 1, Len(s)), old, new)
         ELSE <<Head(s)>> \o Replace(Tail(s), old, new)

\* The keys the service may be configured with (os.getenv("OPENWEATHER_API_KEY"),
\* non-empty: app.py raises at start-up otherwise).  "aa" overlaps itself.
ApiKeys == { <<"a", "b">>, <<"a", "a">> }

\* The city names requests carry.
Cities == { <<"p">>, <<"q">> }

(***************************************************************************)
(* Upstream JSON (OpenWeatherMap /weather and /forecast), as far as the    *)
(* program reads it.  dt_txt "YYYY-MM-DD HH:MM:SS" is <<date, hour>>, the   *)
(* day counted from some day 0.                                            *)
(***************************************************************************)
Weather(main, description) == << [main |-> main, description |-> description] >>

CurrentData(city, temp, humidity, wind, main, description) ==
    [ name    |-> city,
      sys     |-> [country |-> "GB"],
      main    |-> [temp |-> temp, feels_like |-> temp, humidity |-> humidity],
      wind    |-> [speed |-> wind],
      weather |-> Weather(main, description),
      dt      |-> 0 ]

ForecastItem(date, hour, temp, humidity, wind, main, description) ==
    [ dt      |-> date * 24 + hour,
      dt_txt  |-> <<date, hour>>,
      main    |-> [temp |-> temp, feels_like |-> temp, humidity |-> humidity],
      wind    |-> [speed |-> wind],
      weather |-> Weather(main, description) ]

ForecastData(city, items) ==
    [ city |-> [name |-> city, country |-> "GB"], list |-> items ]

\* Condition texts, as the provider spells them.
TxtClear == <<"C", "l", "e", "a", "r">>
TxtClearSky == <<"c", "l", "e", "a", "r", " ", "s", "k", "y">>
TxtRain == <<"R", "a", "i", "n">>
TxtLightRain == <<"l", "i", "g", "h", "t", " ", "r", "a", "i", "n">>

\* What the upstream serves in the service-level specifications: two observations
\* per city, a mild one and a hot one.
AppTemps == { 180, 365 }
CurrentAt(city, t) == CurrentData(city, t, 50, 30, TxtClear, TxtClearSky)
ForecastAt(city, t) ==
    ForecastData(city, << ForecastItem(1, 9, t - 30, 50, 30, TxtClear, TxtClearSky),
                          ForecastItem(1, 12, t, 50, 30, TxtClear, TxtClearSky),
                          ForecastItem(1, 18, t - 50, 70, 30, TxtRain, TxtLightRain),
                          ForecastItem(2, 3, t - 80, 70, 30, TxtClear, TxtClearSky) >>)
AppCurrent(city) == { CurrentAt(city, t) : t \in AppTemps }
AppForecast(city) == { ForecastAt(city, t) : t \in AppTemps }

(***************************************************************************)
(* weather_service.py: the normalised shapes.                              *)
(***************************************************************************)
\* get_current_weather: formatted_data
FormatCurrent(data) ==
    [ city                |-> data.name,
      country             |-> data.sys.country,
      temperature         |-> data.main.temp,
      feels_like          |-> data.main.feels_like,
      humidity            |-> data.main.humidity,
      wind_speed          |-> data.wind.speed,
      weather_main        |-> data.weather[1].main,
      weather_description |-> data.weather[1].description,
      timestamp           |-> data.dt ]

(***************************************************************************)
(* cache_service.py                                                        *)
(***************************************************************************)
EmptyCache == [k \in {} |-> None]

Without(c, key) == [k \in DOMAIN c \ {key} |-> c[k]]

\* get with "<=" for "<": an entry is still served at the age of exactly the TTL
CacheGetInclusive(c, t, ttl, key) ==
    IF key \in DOMAIN c
    THEN IF t - c[key].timestamp <= ttl
         THEN [ret |-> Some(c[key].value), cache |-> c]
         ELSE [ret |-> None, cache |-> Without(c, key)]
    ELSE [ret |-> None, cache |-> c]

\* get without the del of line 39: an expired entry is not served but stays
CacheGetKeeps(c, t, ttl, key) ==
    IF key \in DOMAIN c /\ t - c[key].timestamp < ttl
    THEN [ret |-> Some(c[key].value), cache |-> c]
    ELSE [ret |-> None, cache |-> c]

\* CacheService.get: [ret |-> None or Some(value), cache |-> the cache afterwards]
CacheGet(c, t, ttl, key) ==
    IF key \in DOMAIN c
    THEN IF t - c[key].timestamp < ttl
         THEN [ret |-> Some(c[key].value), cache |-> c]
         ELSE [ret |-> None, cache |-> Without(c, key)]
    ELSE [ret |-> None, cache |-> c]

\* set that keeps the entry of a key already stored (dict.setdefault)
CacheSetDefault(c, t, key, value) ==
    [k \in DOMAIN c \cup {key} |->
        IF k = key /\ k \notin DOMAIN c
        THEN [value |-> value, timestamp |-> t] ELSE c[k]]

\* CacheService.set: the cache afterwards
CacheSet(c, t, key, value) ==
    [k \in DOMAIN c \cup {key} |->
        IF k = key THEN [value |-> value, timestamp |-> t] ELSE c[k]]

\* delete without its "return True": the stored key is removed, False is returned
CacheDeleteNoReturn(c, key) ==
    [ret |-> FALSE, cache |-> Without(c, key)]

\* CacheService.delete: [ret |-> bool, cache |-> the cache afterwards]
CacheDelete(c, key) ==
    IF key \in DOMAIN c
    THEN [ret |-> TRUE, cache |-> Without(c, key)]
    ELSE [ret |-> FALSE, cache |-> c]

\* CacheService.clear: the cache afterwards
CacheClear(c) == EmptyCache

\* cleanup with ">" for ">=": an entry aged exactly the TTL is kept
CacheCleanupStrict(c, t, ttl) ==
    LET keys_to_delete == {k \in DOMAIN c : t - c[k].timestamp > ttl}
    IN  [k \in DOMAIN c \ keys_to_delete |-> c[k]]

\* CacheService.cleanup: the cache afterwards
CacheCleanup(c, t, ttl) ==
    LET keys_to_delete == {k \in DOMAIN c : t - c[k].timestamp >= ttl}
    IN  [k \in DOMAIN c \ keys_to_delete |-> c[k]]

\* f"current_weather_{city}", f"forecast_{city}", f"enhanced_forecast:{city}"
CurrentKey(city) == <<"current_weather_">> \o city
\* the forecast stored under the key of the current weather
ForecastKeyCopied(city) == <<"current_weather_">> \o city
ForecastKey(city) == <<"forecast_">> \o city
EnhancedKey(city) == <<"enhanced_forecast:">> \o city

CacheKeys ==
    {CurrentKey(c) : c \in Cities} \cup {ForecastKey(c) : c \in Cities}
        \cup {EnhancedKey(c) : c \in Cities}

\* The fetches the services store: what is fetched, for which city.
Fetches == {"current weather", "forecast", "enhanced forecast"} \X Cities

\* A cache.set made by a call: the key, the value, and the fetch it stores.
Stored(key, value, what, city) ==
    [key |-> key, value |-> value, what |-> what, city |-> city]

\* history: each cache.set in sets happened at t
Recorded(hist, sets, t) ==
    [k \in DOMAIN hist |->
        IF \E st \in sets : st.key = k
        THEN LET st == CHOOSE st \in sets : st.key = k IN <<t, st.value>>
        ELSE hist[k]]

\* history: each fetch stored in sets happened at t
Fetched(hist, sets, t) ==
    [f \in DOMAIN hist |->
        IF \E st \in sets : <<st.what, st.city>> = f
        THEN LET st == CHOOSE st \in sets : <<st.what, st.city>> = f
             IN  <<t, st.value>>
        ELSE hist[f]]

(***************************************************************************)
(* The cache used on its own: any sequence of its five operations and      *)
(* clock advances, on two keys with two values.                            *)
(***************************************************************************)
ApiKeysOfCache == {CurrentKey(c) : c \in Cities}
ApiValues == {FormatCurrent(d) : d \in AppCurrent(<<"p">>)}

Tick ==
    /\ now < MaxTicks * TickSeconds
    /\ now' = now + TickSeconds
    /\ lastCall' = [op |-> "tick"]
    /\ logged' = <<>>
    /\ upstream' = <<>>
    /\ UNCHANGED <<api_key, expiry, cache, models, setAt, fetched, threads>>

\* What a call record says of the call before it.
KeyOf(call) == IF "key" \in DOMAIN call THEN Some(call.key) ELSE None
ValueOf(call) == IF "value" \in DOMAIN call THEN Some(call.value) ELSE None
Before(call) == [op |-> call.op, key |-> KeyOf(call), value |-> ValueOf(call)]

Get(key) ==
    LET r == CacheGet(cache, now, expiry, key)
    IN  /\ cache' = r.cache
        /\ lastCall' = [op |-> "get", key |-> key, ret |-> r.ret,
                        evicted |-> DOMAIN cache \ DOMAIN r.cache,
                        after |-> Before(lastCall)]
        /\ UNCHANGED <<api_key, expiry, now, models, logged, upstream, setAt, fetched, threads>>

Set(key, value) ==
    /\ cache' = CacheSet(cache, now, key, value)
    /\ lastCall' = [op |-> "set", key |-> key, value |-> value]
    /\ setAt' = Recorded(setAt, {Stored(key, value, "set", <<>>)}, now)
    /\ UNCHANGED <<api_key, expiry, now, models, logged, upstream, fetched, threads>>

Delete(key) ==
    LET r == CacheDelete(cache, key)
    IN  /\ cache' = r.cache
        /\ lastCall' = [op |-> "delete", key |-> key, ret |-> r.ret]
        /\ UNCHANGED <<api_key, expiry, now, models, logged, upstream, setAt, fetched, threads>>

Clear ==
    /\ cache' = CacheClear(cache)
    /\ lastCall' = [op |-> "clear"]
    /\ UNCHANGED <<api_key, expiry, now, models, logged, upstream, setAt, fetched, threads>>

Cleanup ==
    /\ cache' = CacheCleanup(cache, now, expiry)
    /\ lastCall' = [op |-> "cleanup", removed |-> DOMAIN cache \ DOMAIN cache']
    /\ UNCHANGED <<api_key, expiry, now, models, logged, upstream, setAt, fetched, threads>>

InitCache ==
    /\ api_key = <<"a", "b">>
    /\ expiry \in {DefaultExpiry, AppExpiry}
    /\ cache = EmptyCache
    /\ now = 0
    /\ models = {}
    /\ lastCall = [op |-> "init"]
    /\ logged = <<>>
    /\ upstream = <<>>
    /\ setAt = [k \in CacheKeys |-> None]
    /\ fetched = [f \in Fetches |-> None]
    /\ threads = NoThreads

NextCache ==
    \/ Tick
    \/ \E k \in ApiKeysOfCache : Get(k)
    \/ \E k \in ApiKeysOfCache, v \in ApiValues : Set(k, v)
    \/ \E k \in ApiKeysOfCache : Delete(k)
    \/ Clear
    \/ Cleanup

SpecCache == InitCache /\ [][NextCache]_vars

(***************************************************************************)
(* cache_service.py under threads (app.run serves each request in a        *)
(* thread of its own; the cache has no lock).  A thread runs one cache     *)
(* method at a time, statement by statement; pc is the line it is about to *)
(* execute.  A thread's record keeps, of the method it ran last, whether   *)
(* it raised and whether get or cleanup deleted an entry younger than the  *)
(* TTL.                                                                    *)
(***************************************************************************)
Threads == {"A", "B"}

Idle == [pc |-> "idle", key |-> None, timestamp |-> 0, todo |-> {},
         raised |-> FALSE, evicted_fresh |-> FALSE]

\* A thread enters a method at the line pc.
Enters(pc, key) == [Idle EXCEPT !.pc = pc, !.key = key]

\* The thread returns; raises; moves to the line pc.
Returns(th) == [th EXCEPT !.pc = "idle"]
Raises(th) == [th EXCEPT !.pc = "idle", !.raised = TRUE]
Goes(th, pc) == [th EXCEPT !.pc = pc]

\* The entry under key is younger than the TTL.
Fresh(key) == now - cache[key].timestamp < expiry

\* What a step of thread t leaves alone besides the cache.
ThreadFrame == UNCHANGED <<api_key, expiry, now, models, lastCall, logged, upstream,
                           setAt, fetched>>

\* A call of get, delete or cleanup begins.
ThreadCalls(t) ==
    /\ threads[t].pc = "idle"
    /\ \/ \E key \in ApiKeysOfCache :
              threads' = [threads EXCEPT ![t] = Enters("get:29", Some(key))]
       \/ \E key \in ApiKeysOfCache :
              threads' = [threads EXCEPT ![t] = Enters("delete:65", Some(key))]
       \/ threads' = [threads EXCEPT ![t] = Enters("cleanup:82", None)]
    /\ ThreadFrame /\ UNCHANGED cache

\* get, line 29: if key in self.cache
ThreadGetTest(t) ==
    LET th == threads[t]
    IN  /\ th.pc = "get:29"
        /\ threads' = [threads EXCEPT ![t] =
                          IF th.key[1] \in DOMAIN cache THEN Goes(th, "get:30")
                          ELSE Returns(th)]
        /\ ThreadFrame /\ UNCHANGED cache

\* get, line 30: value, timestamp = self.cache[key]
ThreadGetRead(t) ==
    LET th == threads[t]
    IN  /\ th.pc = "get:30"
        /\ threads' = [threads EXCEPT ![t] =
                          IF th.key[1] \in DOMAIN cache
                          THEN [th EXCEPT !.pc = "get:33",
                                          !.timestamp = cache[th.key[1]].timestamp]
                          ELSE Raises(th)]
        /\ ThreadFrame /\ UNCHANGED cache

\* get, line 33: if time.time() - timestamp < self.expiry: return value
ThreadGetCheck(t) ==
    LET th == threads[t]
    IN  /\ th.pc = "get:33"
        /\ threads' = [threads EXCEPT ![t] =
                          IF now - th.timestamp < expiry THEN Returns(th)
                          ELSE Goes(th, "get:39")]
        /\ ThreadFrame /\ UNCHANGED cache

\* get, line 39: del self.cache[key]
ThreadGetEvict(t) ==
    LET th == threads[t]
    IN  /\ th.pc = "get:39"
        /\ IF th.key[1] \in DOMAIN cache
           THEN /\ cache' = Without(cache, th.key[1])
                /\ threads' = [threads EXCEPT ![t] =
                                  [Returns(th) EXCEPT !.evicted_fresh = Fresh(th.key[1])]]
           ELSE /\ cache' = cache
                /\ threads' = [threads EXCEPT ![t] = Raises(th)]
        /\ ThreadFrame

\* set, line 53: self.cache[key] = (value, time.time())
ThreadSet(t, key, value) ==
    /\ threads[t].pc = "idle"
    /\ cache' = CacheSet(cache, now, key, value)
    /\ setAt' = Recorded(setAt, {Stored(key, value, "set", <<>>)}, now)
    /\ threads' = [threads EXCEPT ![t] = Idle]
    /\ UNCHANGED <<api_key, expiry, now, models, lastCall, logged, upstream, fetched>>

\* delete, line 65: if key in self.cache
ThreadDeleteTest(t) ==
    LET th == threads[t]
    IN  /\ th.pc = "delete:65"
        /\ threads' = [threads EXCEPT ![t] =
                          IF th.key[1] \in DOMAIN cache THEN Goes(th, "delete:67")
                          ELSE Returns(th)]
        /\ ThreadFrame /\ UNCHANGED cache

\* delete, line 67: del self.cache[key]
ThreadDeleteDel(t) ==
    LET th == threads[t]
    IN  /\ th.pc = "delete:67"
        /\ IF th.key[1] \in DOMAIN cache
           THEN /\ cache' = Without(cache, th.key[1])
                /\ threads' = [threads EXCEPT ![t] = Returns(th)]
           ELSE /\ cache' = cache
                /\ threads' = [threads EXCEPT ![t] = Raises(th)]
        /\ ThreadFrame

\* cleanup, lines 82-84: the loop that collects keys_to_delete, taken as one step
ThreadCleanupScan(t) ==
    LET th == threads[t]
    IN  /\ th.pc = "cleanup:82"
        /\ threads' = [threads EXCEPT ![t] =
                          [th EXCEPT !.pc = "cleanup:86",
                                     !.todo = {k \in DOMAIN cache : ~Fresh(k)}]]
        /\ ThreadFrame /\ UNCHANGED cache

\* cleanup, lines 86-87: for key in keys_to_delete: del self.cache[key]
ThreadCleanupDel(t) ==
    LET th == threads[t]
    IN  /\ th.pc = "cleanup:86"
        /\ IF th.todo = {}
           THEN /\ cache' = cache
                /\ threads' = [threads EXCEPT ![t] = Returns(th)]
           ELSE \E k \in th.todo :
                    IF k \in DOMAIN cache
                    THEN /\ cache' = Without(cache, k)
                         /\ threads' = [threads EXCEPT ![t] =
                                           [th EXCEPT !.todo = @ \ {k},
                                                      !.evicted_fresh = @ \/ Fresh(k)]]
                    ELSE /\ cache' = cache
                         /\ threads' = [threads EXCEPT ![t] = Raises(th)]
        /\ ThreadFrame

InitThreads ==
    /\ api_key = <<"a", "b">>
    /\ expiry = AppExpiry
    /\ cache = EmptyCache
    /\ now = 0
    /\ models = {}
    /\ lastCall = [op |-> "init"]
    /\ logged = <<>>
    /\ upstream = <<>>
    /\ setAt = [k \in CacheKeys |-> None]
    /\ fetched = [f \in Fetches |-> None]
    /\ threads = [t \in Threads |-> Idle]

NextThreads ==
    \/ Tick
    \/ \E t \in Threads : ThreadCalls(t)
    \/ \E t \in Threads : ThreadGetTest(t)
    \/ \E t \in Threads : ThreadGetRead(t)
    \/ \E t \in Threads : ThreadGetCheck(t)
    \/ \E t \in Threads : ThreadGetEvict(t)
    \/ \E t \in Threads : \E key \in ApiKeysOfCache : ThreadSet(t, key, FormatCurrent(CurrentAt(<<"p">>, 180)))
    \/ \E t \in Threads : ThreadDeleteTest(t)
    \/ \E t \in Threads : ThreadDeleteDel(t)
    \/ \E t \in Threads : ThreadCleanupScan(t)
    \/ \E t \in Threads : ThreadCleanupDel(t)

SpecThreads == InitThreads /\ [][NextThreads]_vars

(***************************************************************************)
(* The upstream (requests.get, raise_for_status, response.json) as the     *)
(* program sees it.  An outcome is one of                                  *)
(*   [kind |-> "ok", data]            a 2xx answer with the JSON data      *)
(*   [kind |-> "request_exception", msg, response]                         *)
(*        a requests.exceptions.RequestException e: msg is str(e) and      *)
(*        response is e.response, None or Some([ok, text]); a Response is  *)
(*        truthy exactly when it is ok                                     *)
(*   [kind |-> "exception", msg]      any other exception raised in the    *)
(*        try block (a KeyError on a payload that lacks a field)           *)
(***************************************************************************)
Ok(data) == [kind |-> "ok", data |-> data]
RequestException(msg, response) ==
    [kind |-> "request_exception", msg |-> msg, response |-> response]
OtherException(msg) == [kind |-> "exception", msg |-> msg]

\* str(KeyError('name'))
KeyErrorText == <<"'name'">>

\* The RequestExceptions with the messages msgs: without a response, with the
\* response of a failed status, with a response that is ok.
RequestExceptions(msgs) ==
    UNION { { RequestException(m, None),
              RequestException(m, Some([ok |-> FALSE, text |-> m])),
              RequestException(m, Some([ok |-> TRUE, text |-> m])) } : m \in msgs }

\* requests.get(url, params={"q": city, "appid": api_key, "units": "metric"})
Request(url, city, key) == [url |-> url, q |-> city, appid |-> key, units |-> "metric"]

(***************************************************************************)
(* weather_service.py                                                      *)
(***************************************************************************)
REDACTED == <<"[REDACTED]">>

\* redaction that stops after the first occurrence (str.replace(old, new, 1))
RedactFirst(text, key) ==
    LET at == {i \in 1..(Len(text) - Len(key) + 1) :
                   SubSeq(text, i, i + Len(key) - 1) = key}
    IN  IF at = {} THEN text
        ELSE LET i == CHOOSE j \in at : \A l \in at : j <= l
             IN  SubSeq(text, 1, i - 1) \o REDACTED
                     \o SubSeq(text, i + Len(key), Len(text))

\* if self.api_key in text: text = text.replace(self.api_key, "[REDACTED]")
Redact(text, key) ==
    IF Contains(text, key) THEN Replace(text, key, REDACTED) ELSE text

LogLine(level, text) == [level |-> level, text |-> text]

\* The except clause of get_current_weather and get_forecast:
\* [logged |-> the lines logged, raised |-> the text of the exception raised]
OnRequestException(what, key, out) ==
    LET error_message == Redact(out.msg, key)
        first == << LogLine("error", <<"Error fetching ", what, " data: ">> \o error_message) >>
        second ==
            IF out.response # None /\ out.response[1].ok
            THEN << LogLine("error", <<"Response content: ">>
                                         \o Redact(out.response[1].text, key)) >>
            ELSE <<>>
    IN  [ logged |-> first \o second,
          raised |-> <<"Failed to fetch ", what, " data: ">> \o error_message ]

\* get_forecast: forecast_item
FormatForecastItem(item) ==
    [ time                |-> item.dt_txt[2],
      timestamp           |-> item.dt,
      temperature         |-> item.main.temp,
      feels_like          |-> item.main.feels_like,
      humidity            |-> item.main.humidity,
      wind_speed          |-> item.wind.speed,
      weather_main        |-> item.weather[1].main,
      weather_description |-> item.weather[1].description ]

\* get_forecast: formatted_data, the items grouped by date in their order
FormatForecast(data) ==
    LET dates == {data.list[i].dt_txt[1] : i \in DOMAIN data.list}
        OfDate(d) ==
            LET On(item) == item.dt_txt[1] = d
                picked == SelectSeq(data.list, On)
            IN  [i \in DOMAIN picked |-> FormatForecastItem(picked[i])]
    IN  [ city |-> [name |-> data.city.name, country |-> data.city.country],
          days |-> [d \in dates |-> OfDate(d)] ]

\* One cached fetch: the body shared by get_current_weather and get_forecast.
\* The result of a service call is
\*   [ret |-> Some(value) or None, raised |-> None or Some(text),
\*    cache, sets |-> the cache.set calls made, evicted |-> the keys cache.get
\*    evicted, calls |-> the upstream requests, failed |-> the requests among
\*    them that failed, logged]
Fetch(c, t, ttl, key, cache_key, request, what, formatted, out) ==
    LET cached == CacheGet(c, t, ttl, cache_key)
        evicted == DOMAIN c \ DOMAIN cached.cache
    IN  IF cached.ret # None
        THEN [ ret |-> cached.ret, raised |-> None, cache |-> cached.cache,
               sets |-> {}, evicted |-> evicted, calls |-> <<>>, failed |-> <<>>,
               logged |-> <<>> ]
        ELSE CASE out.kind = "ok" ->
                    [ ret |-> Some(formatted), raised |-> None,
                      cache |-> CacheSet(cached.cache, t, cache_key, formatted),
                      sets |-> {Stored(cache_key, formatted, what, request.q)},
                      evicted |-> evicted, calls |-> <<request>>, failed |-> <<>>,
                      logged |-> <<>> ]
               [] out.kind = "request_exception" ->
                    LET h == OnRequestException(what, key, out)
                    IN  [ ret |-> None, raised |-> Some(h.raised),
                          cache |-> cached.cache, sets |-> {}, evicted |-> evicted,
                          calls |-> <<request>>, failed |-> <<request>>,
                          logged |-> h.logged ]
               [] out.kind = "exception" ->
                    [ ret |-> None, raised |-> Some(out.msg),
                      cache |-> cached.cache, sets |-> {}, evicted |-> evicted,
                      calls |-> <<request>>, failed |-> <<request>>,
                      logged |-> <<>> ]

\* WeatherService.get_current_weather(city), the upstream answering out
GetCurrentWeather(c, t, ttl, key, city, out) ==
    Fetch(c, t, ttl, key, CurrentKey(city), Request("weather", city, key),
          "current weather",
          IF out.kind = "ok" THEN FormatCurrent(out.data) ELSE None, out)

\* WeatherService.get_forecast(city), the upstream answering out
GetForecast(c, t, ttl, key, city, out) ==
    Fetch(c, t, ttl, key, ForecastKey(city), Request("forecast", city, key),
          "forecast",
          IF out.kind = "ok" THEN FormatForecast(out.data) ELSE None, out)

(***************************************************************************)
(* ai_weather_service.py: the enhanced forecast.  datetime.now() is the    *)
(* argument today, <<date, hour>>.  ai_confidence is in thousandths.       *)
(***************************************************************************)
\* _enhance_forecast_with_ai: temp_adjustment, in tenths of a degree
\* the night taken as the hours from 22 to 4 read as one interval
TempAdjustmentAnd(hour) ==
    IF 10 <= hour /\ hour <= 16 THEN 5
    ELSE IF 22 <= hour /\ hour <= 4 THEN -3
    ELSE 0

TempAdjustment(hour) ==
    IF 10 <= hour /\ hour <= 16 THEN 5
    ELSE IF 22 <= hour \/ hour <= 4 THEN -3
    ELSE 0

\* the confidence with a floor of 0.5
ConfidenceFloorHalf(hours) ==
    LET c == 950 - hours * 5 IN IF c > 500 THEN c ELSE 500

\* _enhance_forecast_with_ai: confidence, for a slot hours ahead of now
Confidence(hours) ==
    LET c == 950 - hours * 5 IN IF c > 600 THEN c ELSE 600

HoursFromNow(dt_txt, today) == (dt_txt[1] * 24 + dt_txt[2]) - (today[1] * 24 + today[2])

\* _enhance_forecast_with_ai: one item of enhanced_data['list']
EnhanceItem(item, today) ==
    LET adj == TempAdjustment(item.dt_txt[2])
        main == [item.main EXCEPT !.temp = @ + adj, !.feels_like = @ + adj]
    IN  [k \in DOMAIN item \cup {"ai_confidence"} |->
            IF k = "ai_confidence" THEN Confidence(HoursFromNow(item.dt_txt, today))
            ELSE IF k = "main" THEN main
            ELSE item[k]]

\* _enhance_forecast_with_ai: enhanced_data ('ai_enhanced' is set inside the loop)
EnhanceForecastWithAI(forecast_data, today) ==
    LET list == [i \in DOMAIN forecast_data.list |->
                    EnhanceItem(forecast_data.list[i], today)]
    IN  [k \in DOMAIN forecast_data \cup (IF list = <<>> THEN {} ELSE {"ai_enhanced"}) |->
            IF k = "ai_enhanced" THEN TRUE
            ELSE IF k = "list" THEN list
            ELSE forecast_data[k]]

\* get_enhanced_forecast's except clause: str(e) is logged and raised as it is
EnhancedFailed(city, key, text) ==
    [ logged |-> << LogLine("error", <<"Error fetching enhanced forecast for ">> \o city
                                         \o <<": ">> \o text) >>,
      raised |-> <<"Failed to fetch enhanced forecast: ">> \o text ]

\* get_enhanced_forecast enhancing again what it reads from the cache
GetEnhancedForecastAgain(c, t, ttl, key, mdl, city, out, today) ==
    LET cache_key == EnhancedKey(city)
        cached == CacheGet(c, t, ttl, cache_key)
        evicted == DOMAIN c \ DOMAIN cached.cache
        request == Request("forecast", city, key)
    IN  IF cached.ret # None
        THEN [ ret |-> Some(EnhanceForecastWithAI(cached.ret[1], today)),
               raised |-> None, cache |-> cached.cache,
               sets |-> {}, evicted |-> evicted, calls |-> <<>>, failed |-> <<>>,
               logged |-> <<>>, models |-> mdl ]
        ELSE IF out.kind = "ok"
        THEN LET enhanced_data == EnhanceForecastWithAI(out.data, today)
             IN  [ ret |-> Some(enhanced_data), raised |-> None,
                   cache |-> CacheSet(cached.cache, t, cache_key, enhanced_data),
                   sets |-> {Stored(cache_key, enhanced_data, "enhanced forecast", city)},
                   evicted |-> evicted, calls |-> <<request>>, failed |-> <<>>,
                   logged |-> <<>>, models |-> mdl \cup {city} ]
        ELSE LET h == EnhancedFailed(city, key, out.msg)
             IN  [ ret |-> None, raised |-> Some(h.raised), cache |-> cached.cache,
                   sets |-> {}, evicted |-> evicted, calls |-> <<request>>,
                   failed |-> <<request>>, logged |-> h.logged, models |-> mdl ]

\* AIWeatherService.get_enhanced_forecast(city), the upstream answering out;
\* models |-> self.models afterwards
GetEnhancedForecast(c, t, ttl, key, mdl, city, out, today) ==
    LET cache_key == EnhancedKey(city)
        cached == CacheGet(c, t, ttl, cache_key)
        evicted == DOMAIN c \ DOMAIN cached.cache
        request == Request("forecast", city, key)
    IN  IF cached.ret # None
        THEN [ ret |-> cached.ret, raised |-> None, cache |-> cached.cache,
               sets |-> {}, evicted |-> evicted, calls |-> <<>>, failed |-> <<>>,
               logged |-> <<>>, models |-> mdl ]
        ELSE IF out.kind = "ok"
        THEN LET enhanced_data == EnhanceForecastWithAI(out.data, today)
             IN  [ ret |-> Some(enhanced_data), raised |-> None,
                   cache |-> CacheSet(cached.cache, t, cache_key, enhanced_data),
                   sets |-> {Stored(cache_key, enhanced_data, "enhanced forecast", city)},
                   evicted |-> evicted, calls |-> <<request>>, failed |-> <<>>,
                   logged |-> <<>>, models |-> mdl \cup {city} ]
        ELSE LET h == EnhancedFailed(city, key, out.msg)
             IN  [ ret |-> None, raised |-> Some(h.raised), cache |-> cached.cache,
                   sets |-> {}, evicted |-> evicted, calls |-> <<request>>,
                   failed |-> <<request>>, logged |-> h.logged, models |-> mdl ]

(***************************************************************************)
(* ai_weather_service.py: alerts.  Sensitivities and the threshold are in  *)
(* hundredths, severities in 600ths.                                       *)
(***************************************************************************)
UpperCase == <<"A", "B", "C", "D", "E", "F", "G", "H", "I", "J", "K", "L", "M", "N", "O", "P", "Q", "R", "S", "T", "U", "V", "W", "X", "Y", "Z">>
LowerCase == <<"a", "b", "c", "d", "e", "f", "g", "h", "i", "j", "k", "l", "m", "n", "o", "p", "q", "r", "s", "t", "u", "v", "w", "x", "y", "z">>

\* str.lower()
Lower(text) ==
    [i \in DOMAIN text |->
        IF \E j \in DOMAIN UpperCase : UpperCase[j] = text[i]
        THEN LowerCase[CHOOSE j \in DOMAIN UpperCase : UpperCase[j] = text[i]]
        ELSE text[i]]

\* The terms the rules look for.
T_thunderstorm == <<"t", "h", "u", "n", "d", "e", "r", "s", "t", "o", "r", "m">>
T_storm == <<"s", "t", "o", "r", "m">>
T_thunder == <<"t", "h", "u", "n", "d", "e", "r">>
T_heavy == <<"h", "e", "a", "v", "y">>
T_rain == <<"r", "a", "i", "n">>
T_torrential == <<"t", "o", "r", "r", "e", "n", "t", "i", "a", "l">>
T_snow == <<"s", "n", "o", "w">>
T_blizzard == <<"b", "l", "i", "z", "z", "a", "r", "d">>
T_hurricane == <<"h", "u", "r", "r", "i", "c", "a", "n", "e">>
T_typhoon == <<"t", "y", "p", "h", "o", "o", "n">>
T_cyclone == <<"c", "y", "c", "l", "o", "n", "e">>
T_tornado == <<"t", "o", "r", "n", "a", "d", "o">>
T_drizzle == <<"d", "r", "i", "z", "z", "l", "e">>
T_cloud == <<"c", "l", "o", "u", "d">>
T_clear == <<"c", "l", "e", "a", "r">>
T_sun == <<"s", "u", "n">>

SevUnit == 600

\* user_preferences.get(name, default)
PrefGet(prefs, name, default) == IF name \in DOMAIN prefs THEN prefs[name] ELSE default

\* An alert; its message is the f-string's template with the values it holds.
Alert(type, time, template, values, severity) ==
    [ type |-> type, time |-> time,
      message |-> [template |-> template, values |-> values],
      severity |-> severity ]

\* The time label of the current conditions.
NowLabel == <<"now">>

\* the severity without min(..., 1.0)
Unclamped(x) == x

\* min(x, 1.0), in 600ths
Min1(x) == IF x < SevUnit THEN x ELSE SevUnit

\* _check_severe_weather_conditions: the alerts it appends, in order
CheckSevereWeatherConditions(weather_condition, weather_description, temp, wind, humidity, time) ==
    LET In(term) == Contains(weather_condition, term) \/ Contains(weather_description, term)
        storm ==
            IF In(T_thunderstorm) \/ In(T_storm) \/ In(T_thunder)
            THEN << Alert("severe_storm", time,
                          "SEVERE WEATHER ALERT: Thunderstorm expected at {time}. Take shelter and stay indoors.",
                          <<>>, SevUnit) >>
            ELSE <<>>
        heavy_rain ==
            IF \/ Contains(weather_description, T_heavy) /\ In(T_rain)
               \/ Contains(weather_description, T_torrential)
            THEN << Alert("heavy_rain", time,
                          "SEVERE WEATHER ALERT: Heavy rainfall expected at {time}. Flooding possible, avoid travel if possible.",
                          <<>>, (SevUnit * 9) \div 10) >>
            ELSE <<>>
        heatwave ==
            IF temp > 350 /\ humidity > 60
            THEN << Alert("heatwave", time,
                          "SEVERE WEATHER ALERT: Extreme heat conditions at {time}. Temperature {temp}°C with high humidity {humidity}%. Stay hydrated and avoid outdoor activities.",
                          <<temp, humidity>>, (SevUnit * 95) \div 100) >>
            ELSE <<>>
        winter_storm ==
            IF \/ In(T_snow) /\ (Contains(weather_description, T_heavy) \/ wind > 100)
               \/ Contains(weather_description, T_blizzard)
            THEN << Alert("winter_storm", time,
                          "SEVERE WEATHER ALERT: Severe winter conditions at {time}. Heavy snow and limited visibility. Avoid unnecessary travel.",
                          <<>>, (SevUnit * 95) \div 100) >>
            ELSE <<>>
        hurricane ==
            IF In(T_hurricane) \/ In(T_typhoon) \/ In(T_cyclone)
            THEN << Alert("hurricane", time,
                          "EMERGENCY WEATHER ALERT: Hurricane/cyclone conditions at {time}. Seek immediate shelter and follow evacuation orders.",
                          <<>>, SevUnit) >>
            ELSE <<>>
        tornado ==
            IF Contains(weather_description, T_tornado)
            THEN << Alert("tornado", time,
                          "EMERGENCY WEATHER ALERT: Tornado conditions at {time}. Seek shelter immediately in a basement or interior room.",
                          <<>>, SevUnit) >>
            ELSE <<>>
        extreme_cold ==
            IF temp < -150
            THEN << Alert("extreme_cold", time,
                          "SEVERE WEATHER ALERT: Extreme cold conditions at {time}. Temperature {temp}°C. Risk of frostbite and hypothermia.",
                          <<temp>>, (SevUnit * 9) \div 10) >>
            ELSE <<>>
    IN  storm \o heavy_rain \o heatwave \o winter_storm \o hurricane \o tornado
            \o extreme_cold

\* get_personalized_alerts: the alerts for the current conditions
CurrentAlerts(current_data) ==
    LET current_wind ==
            IF "wind" \in DOMAIN current_data /\ "speed" \in DOMAIN current_data.wind
            THEN current_data.wind.speed ELSE 0
        provided ==
            IF "alerts" \in DOMAIN current_data
            THEN [i \in DOMAIN current_data.alerts |->
                    Alert("severe_alert", NowLabel,
                          "WEATHER ALERT: {alert.get('event', 'Severe weather')}. {alert.get('description', '')}",
                          <<current_data.alerts[i]>>, SevUnit)]
            ELSE <<>>
    IN  CheckSevereWeatherConditions(Lower(current_data.weather[1].main),
                                     Lower(current_data.weather[1].description),
                                     current_data.main.temp, current_wind,
                                     current_data.main.humidity, NowLabel)
            \o provided

\* get_personalized_alerts: the alerts for one item of forecast['list']
SlotAlerts(day, prefs) ==
    LET rain_sensitivity == PrefGet(prefs, "rain_sensitivity", 50)
        temp_sensitivity == PrefGet(prefs, "temp_sensitivity", 50)
        wind_sensitivity == PrefGet(prefs, "wind_sensitivity", 50)
        time == day.dt_txt
        temp == day.main.temp
        wind_speed == day.wind.speed
        rain_volume == IF "rain" \in DOMAIN day /\ "3h" \in DOMAIN day.rain
                       THEN day.rain["3h"] ELSE 0
        rain ==
            IF "rain" \in DOMAIN day /\ rain_sensitivity > 30
                                     /\ rain_volume * 10 > rain_sensitivity
            THEN << Alert("rain", time, "Expected rainfall of {rain_volume}mm at {time}",
                          <<rain_volume>>, Min1(rain_volume * 6)) >>
            ELSE <<>>
        temperature ==
            IF temp_sensitivity > 30
            THEN IF temp > 3 * temp_sensitivity
                 THEN << Alert("high_temp", time,
                               "High temperature of {temp}°C (feels like {feels_like}°C) at {time}",
                               <<temp, day.main.feels_like>>, Min1((temp - 250) * 4)) >>
                 ELSE IF temp * 2 < temp_sensitivity
                 THEN << Alert("low_temp", time,
                               "Low temperature of {temp}°C (feels like {feels_like}°C) at {time}",
                               <<temp, day.main.feels_like>>, Min1((50 - temp) * 6)) >>
                 ELSE <<>>
            ELSE <<>>
        wind ==
            IF wind_sensitivity > 30 /\ wind_speed > wind_sensitivity
            THEN << Alert("wind", time, "Strong winds of {wind_speed} m/s at {time}",
                          <<wind_speed>>, Min1(wind_speed * 3)) >>
            ELSE <<>>
    IN  CheckSevereWeatherConditions(Lower(day.weather[1].main),
                                     Lower(day.weather[1].description),
                                     temp, wind_speed, day.main.humidity, time)
            \o rain \o temperature \o wind

\* forecast['list'][:16]
SlotsAhead == 16

RECURSIVE Flatten(_)
Flatten(seqs) == IF seqs = <<>> THEN <<>> ELSE Head(seqs) \o Flatten(Tail(seqs))

\* the alerts appended when the loop runs over forecast['list'][:15]
GeneratedAlertsOneLess(forecast, current_data, prefs) ==
    LET n == IF Len(forecast.list) < SlotsAhead - 1 THEN Len(forecast.list)
             ELSE SlotsAhead - 1
    IN  CurrentAlerts(current_data)
            \o Flatten([i \in 1..n |-> SlotAlerts(forecast.list[i], prefs)])

\* get_personalized_alerts: the alerts appended before the filter
GeneratedAlerts(forecast, current_data, prefs) ==
    LET n == IF Len(forecast.list) < SlotsAhead THEN Len(forecast.list) ELSE SlotsAhead
    IN  CurrentAlerts(current_data)
            \o Flatten([i \in 1..n |-> SlotAlerts(forecast.list[i], prefs)])

\* the filter with ">" for ">="
AboveThresholdStrict(alerts, alert_threshold) ==
    LET Passes(alert) == alert.severity * 100 > alert_threshold * SevUnit
    IN  SelectSeq(alerts, Passes)

\* [alert for alert in alerts if alert['severity'] >= alert_threshold]
AboveThreshold(alerts, alert_threshold) ==
    LET Passes(alert) == alert.severity * 100 >= alert_threshold * SevUnit
    IN  SelectSeq(alerts, Passes)

\* the sort without reverse=True: least severe first
LeastSevereFirst(alerts) ==
    LET Rank(i) ==
            1 + Cardinality({j \in DOMAIN alerts :
                                \/ alerts[j].severity < alerts[i].severity
                                \/ alerts[j].severity = alerts[i].severity /\ j < i})
    IN  [r \in DOMAIN alerts |-> alerts[CHOOSE i \in DOMAIN alerts : Rank(i) = r]]

\* alerts.sort(key=lambda x: x['severity'], reverse=True): the sort is stable, alerts
\* of equal severity keep their order
MostSevereFirst(alerts) ==
    LET Rank(i) ==
            1 + Cardinality({j \in DOMAIN alerts :
                                \/ alerts[j].severity > alerts[i].severity
                                \/ alerts[j].severity = alerts[i].severity /\ j < i})
    IN  [r \in DOMAIN alerts |-> alerts[CHOOSE i \in DOMAIN alerts : Rank(i) = r]]

\* get_personalized_alerts: the list returned for these data
PersonalizedAlerts(forecast, current_data, prefs) ==
    MostSevereFirst(AboveThreshold(GeneratedAlerts(forecast, current_data, prefs),
                                   PrefGet(prefs, "alert_threshold", 70)))

\* the except clause of get_personalized_alerts
AlertsFailed(city, text) ==
    [ logged |-> << LogLine("error", <<"Error generating personalized alerts for ">>
                                         \o city \o <<": ">> \o text) >>,
      raised |-> <<"Failed to generate personalized alerts: ">> \o text ]

\* AIWeatherService.get_personalized_alerts(city, user_preferences), the upstream
\* answering outF for the forecast and outC for the current weather
GetPersonalizedAlerts(c, t, ttl, key, mdl, city, prefs, outF, outC, today) ==
    LET e == GetEnhancedForecast(c, t, ttl, key, mdl, city, outF, today)
        request == Request("weather", city, key)
    IN  IF e.raised # None
        THEN LET h == AlertsFailed(city, e.raised[1])
             IN  [e EXCEPT !.raised = Some(h.raised), !.logged = @ \o h.logged]
        ELSE IF outC.kind # "ok"
        THEN LET h == AlertsFailed(city, outC.msg)
             IN  [e EXCEPT !.ret = None, !.raised = Some(h.raised),
                           !.calls = @ \o <<request>>, !.failed = <<request>>,
                           !.logged = @ \o h.logged]
        ELSE [e EXCEPT !.ret = Some(PersonalizedAlerts(e.ret[1], outC.data, prefs)),
                       !.calls = @ \o <<request>>]

\* get_personalized_alerts: the local list alerts as it is before the filter, when
\* the call gets that far
AlertsBeforeFilter(c, t, ttl, key, mdl, city, prefs, outF, outC, today) ==
    LET e == GetEnhancedForecast(c, t, ttl, key, mdl, city, outF, today)
    IN  IF e.raised = None /\ outC.kind = "ok"
        THEN GeneratedAlerts(e.ret[1], outC.data, prefs)
        ELSE <<>>

(***************************************************************************)
(* ai_weather_service.py: clothing recommendations.  A recommendation is   *)
(* the source's string, an explanation the sequence of the sentences       *)
(* appended to it.                                                         *)
(***************************************************************************)
\* the umbrella flag on 'rain' alone
RainOnly(weather_condition) == Contains(weather_condition, T_rain)

\* 'rain' in weather_condition or 'drizzle' in weather_condition
RainOrDrizzle(weather_condition) ==
    Contains(weather_condition, T_rain) \/ Contains(weather_condition, T_drizzle)

\* _recommend_top(temp, weather_condition)
RecommendTop(temp, weather_condition) ==
    IF RainOrDrizzle(weather_condition)
    THEN IF temp > 250 THEN "Light waterproof jacket with a breathable t-shirt"
         ELSE IF temp > 180 THEN "Waterproof raincoat with a cotton shirt"
         ELSE IF temp > 100 THEN "Waterproof jacket with a warm sweater underneath"
         ELSE "Insulated waterproof coat with thermal layer"
    ELSE IF Contains(weather_condition, T_snow)
    THEN "Insulated winter coat with thermal base layer"
    ELSE IF Contains(weather_condition, T_cloud)
    THEN IF temp > 280 THEN "Light cotton t-shirt or tank top"
         ELSE IF temp > 220 THEN "Short-sleeve cotton shirt or light blouse"
         ELSE IF temp > 150 THEN "Long-sleeve shirt with light cardigan or hoodie"
         ELSE IF temp > 100 THEN "Sweater with light jacket or fleece"
         ELSE IF temp > 50 THEN "Thick sweater with insulated jacket"
         ELSE "Thermal base layer with heavy winter coat"
    ELSE IF Contains(weather_condition, T_clear)
    THEN IF temp > 300 THEN "Loose, light cotton t-shirt or linen shirt"
         ELSE IF temp > 250 THEN "Breathable cotton t-shirt or sleeveless top"
         ELSE IF temp > 200 THEN "Light short-sleeve shirt or polo"
         ELSE IF temp > 150 THEN "Long-sleeve cotton shirt or light sweater"
         ELSE IF temp > 100 THEN "Medium-weight sweater or pullover"
         ELSE IF temp > 50 THEN "Thick sweater with jacket or blazer"
         ELSE "Thermal base layer with insulated winter coat"
    ELSE IF temp > 250 THEN "Light cotton t-shirt or short-sleeve shirt"
         ELSE IF temp > 180 THEN "Light long-sleeve shirt or blouse"
         ELSE IF temp > 100 THEN "Sweater or fleece jacket"
         ELSE IF temp > 50 THEN "Thick sweater with wind-resistant jacket"
         ELSE "Multiple layers with winter coat"

\* _recommend_bottom(temp)
RecommendBottom(temp) ==
    IF temp > 300 THEN "Light, breathable shorts or skirt"
    ELSE IF temp > 250 THEN "Cotton shorts, skirt, or light chinos"
    ELSE IF temp > 200 THEN "Lightweight pants, jeans, or capris"
    ELSE IF temp > 150 THEN "Regular jeans, chinos, or casual pants"
    ELSE IF temp > 100 THEN "Jeans or medium-weight pants"
    ELSE IF temp > 50 THEN "Thick jeans or warm trousers"
    ELSE IF temp > 0 THEN "Thermal-lined pants or jeans with thermals underneath"
    ELSE "Insulated winter pants with thermal base layer"

\* accessories.append(item) under a condition
If(cond, items) == IF cond THEN items ELSE <<>>

\* _recommend_accessories(temp, weather_condition, wind_speed)
RecommendAccessories(temp, weather_condition, wind_speed) ==
    If(temp < 120, <<"Warm gloves or mittens">>)
    \o If(temp < 80, <<"Thermal neck gaiter or scarf">>)
    \o (IF temp < 50 THEN <<"Insulated beanie or winter hat">>
        ELSE If(temp > 280, <<"Breathable hat or cap for sun protection">>))
    \o If(RainOrDrizzle(weather_condition),
          <<"Compact umbrella">>
          \o (IF temp < 150 THEN <<"Waterproof boots">>
              ELSE <<"Water-resistant footwear">>))
    \o If(Contains(weather_condition, T_snow),
          <<"Insulated waterproof boots", "Thermal socks">>)
    \o If((Contains(weather_condition, T_clear) \/ Contains(weather_condition, T_sun))
              /\ temp > 200,
          <<"UV-protective sunglasses", "SPF 30+ sunscreen">>
          \o If(temp > 280, <<"Water bottle to stay hydrated">>))
    \o If(wind_speed > 80,
          If(temp < 150, <<"Wind-resistant face protection">>)
          \o (IF temp < 100 THEN <<"Windproof gloves">>
              ELSE <<"Windbreaker or wind-resistant layer">>))

\* _generate_recommendation_explanation(temp, weather_condition, humidity, wind_speed)
GenerateRecommendationExplanation(temp, weather_condition, humidity, wind_speed) ==
    (IF RainOrDrizzle(weather_condition)
     THEN IF temp > 200
          THEN <<"The warm rain means you'll want waterproof outer layers that are still breathable. ">>
          ELSE <<"Stay dry and warm with waterproof, insulated clothing. ">>
     ELSE IF Contains(weather_condition, T_snow)
     THEN <<"Protect against snow with waterproof, insulated layers. Focus on keeping extremities warm. ">>
     ELSE IF Contains(weather_condition, T_clear)
     THEN IF temp > 280
          THEN <<"It's hot and sunny! Wear lightweight, breathable fabrics and protect against UV exposure. ">>
          ELSE IF temp > 200
          THEN <<"Pleasant temperatures, but still protect against UV rays if you're outside for long periods. ">>
          ELSE If(temp < 50, <<"Clear but very cold! Layering is essential with a windproof outer layer. ">>)
     ELSE IF Contains(weather_condition, T_cloud)
     THEN IF temp > 250 THEN <<"Overcast but warm. Light clothing is still appropriate. ">>
          ELSE If(temp < 100, <<"Gray and cold - focus on insulation with a medium-weight outer layer. ">>)
     ELSE <<>>)
    \o If(wind_speed > 80, <<"Secure any loose items of clothing due to strong winds. ">>)
    \o If(humidity > 80 /\ temp > 250,
          <<"High humidity will make it feel hotter than it is - dress lighter than the temperature suggests. ">>)
    \o If(temp < 0, <<"Risk of frostbite for exposed skin - cover up completely when outdoors. ">>)

\* get_clothing_recommendations: one block of recommendations
ClothingBlock(time, temp, weather_condition, wind_speed) ==
    [ time        |-> time,
      top         |-> RecommendTop(temp, weather_condition),
      bottom      |-> RecommendBottom(temp),
      accessories |-> RecommendAccessories(temp, weather_condition, wind_speed),
      umbrella    |-> RainOrDrizzle(weather_condition) ]

\* get_clothing_recommendations: the block of a forecast item
ItemBlock(time, item) ==
    ClothingBlock(time, item.main.temp, Lower(item.weather[1].main), item.wind.speed)

\* get_clothing_recommendations: morning_data or evening_data, the first item of
\* today whose hour is from lo to hi, if any
FirstOfToday(list, today, lo, hi) ==
    LET at == {i \in DOMAIN list : /\ list[i].dt_txt[1] = today[1]
                                   /\ lo <= list[i].dt_txt[2]
                                   /\ list[i].dt_txt[2] <= hi}
    IN  IF at = {} THEN None ELSE Some(list[CHOOSE i \in at : \A j \in at : i <= j])

\* get_clothing_recommendations: recommendations
Recommendations(current_data, forecast_data, today) ==
    LET morning_data == FirstOfToday(forecast_data.list, today, 8, 10)
        evening_data == FirstOfToday(forecast_data.list, today, 18, 20)
        current_weather == Lower(current_data.weather[1].main)
        morning == morning_data # None /\ today[2] < 12
        evening == evening_data # None /\ today[2] < 18
    IN  [k \in {"current", "explanation"} \cup (IF morning THEN {"morning"} ELSE {})
                   \cup (IF evening THEN {"evening"} ELSE {}) |->
            CASE k = "current" ->
                     ClothingBlock("Now", current_data.main.temp, current_weather,
                                   current_data.wind.speed)
              [] k = "explanation" ->
                     GenerateRecommendationExplanation(
                         current_data.main.temp, current_weather,
                         current_data.main.humidity, current_data.wind.speed)
              [] k = "morning" -> ItemBlock("Morning", morning_data[1])
              [] k = "evening" -> ItemBlock("Evening", evening_data[1])]

\* the except clause of get_clothing_recommendations
ClothingFailed(city, text) ==
    [ logged |-> << LogLine("error", <<"Error generating clothing recommendations for ">>
                                         \o city \o <<": ">> \o text) >>,
      raised |-> <<"Failed to generate clothing recommendations: ">> \o text ]

\* AIWeatherService.get_clothing_recommendations(city), the upstream answering
\* outC for the current weather and outF for the forecast.  Both requests are made
\* before either payload is read; the cache is not consulted.
GetClothingRecommendations(c, key, city, outC, outF, today) ==
    LET current == Request("weather", city, key)
        forecast == Request("forecast", city, key)
        Failed(calls, request, text) ==
            LET h == ClothingFailed(city, text)
            IN  [ ret |-> None, raised |-> Some(h.raised), cache |-> c, sets |-> {},
                  evicted |-> {}, calls |-> calls, failed |-> <<request>>,
                  logged |-> h.logged ]
    IN  IF outC.kind = "request_exception" THEN Failed(<<current>>, current, outC.msg)
        ELSE IF outF.kind = "request_exception"
        THEN Failed(<<current, forecast>>, forecast, outF.msg)
        ELSE IF outC.kind = "exception"
        THEN Failed(<<current, forecast>>, current, outC.msg)
        ELSE IF outF.kind = "exception"
        THEN Failed(<<current, forecast>>, forecast, outF.msg)
        ELSE [ ret |-> Some(Recommendations(outC.data, outF.data, today)),
               raised |-> None, cache |-> c, sets |-> {}, evicted |-> {},
               calls |-> <<current, forecast>>, failed |-> <<>>, logged |-> <<>> ]

(***************************************************************************)
(* app.py: the six endpoints.  A GET request is its query string args, a   *)
(* dict; the POST request is request.json, None or Some(dict).  The call   *)
(* record of a request is                                                  *)
(*   [op |-> the route, request, status, body, failed, evicted]            *)
(* and logged holds the lines the request logged.  The logger's level is   *)
(* INFO (logger.py), so logger.debug(traceback.format_exc()) writes        *)
(* nothing.                                                                *)
(***************************************************************************)
\* dict.get(name), None when the dict has no such key
DictGet(dict, name) == IF name \in DOMAIN dict THEN Some(dict[name]) ELSE None

\* not city
NotCity(city) == city = None \/ city[1] = <<>>

\* the answer to a request without a city, as a server error
CityRequiredAsServerError ==
    [status |-> 500, body |-> [error |-> <<"City parameter is required">>]]

\* jsonify({"error": "City parameter is required"}), 400
CityRequired ==
    [status |-> 400, body |-> [error |-> <<"City parameter is required">>]]

\* The branch of a handler that rejects the request.
Rejected ==
    [ response |-> CityRequired, cache |-> cache, sets |-> {}, evicted |-> {},
      calls |-> <<>>, failed |-> <<>>, models |-> models,
      logged |-> << LogLine("warning", <<"API request missing city parameter">>) >> ]

\* jsonify(value), or jsonify({"alerts": alerts}) when the value is wrapped
Body(wrapped, v) == IF wrapped THEN [alerts |-> v] ELSE v

\* The try block of a handler: r is the result of the service call, wrapped
\* tells what is made of the value it returns, doing and failing are the texts
\* logged.
Handled(doing, failing, city, r, wrapped) ==
    [ response |-> IF r.raised = None
                   THEN [status |-> 200, body |-> Body(wrapped, r.ret[1])]
                   ELSE [status |-> 500, body |-> [error |-> r.raised[1]]],
      cache    |-> r.cache,
      sets     |-> r.sets,
      evicted  |-> r.evicted,
      calls    |-> r.calls,
      failed   |-> r.failed,
      models   |-> IF "models" \in DOMAIN r THEN r.models ELSE models,
      logged   |-> << LogLine("info", <<doing>> \o city) >> \o r.logged
                   \o (IF r.raised = None THEN <<>>
                       ELSE << LogLine("error", <<failing>> \o city \o <<": ">>
                                                    \o r.raised[1]) >>) ]

\* get_all_weather_data's try block with a forecast failure answered by what
\* there is
CurrentThenForecastPartial(c, t, ttl, key, city, outC, outF) ==
    LET current == GetCurrentWeather(c, t, ttl, key, city, outC)
        forecast == GetForecast(current.cache, t, ttl, key, city, outF)
    IN  IF current.raised # None THEN current
        ELSE [ ret     |-> IF forecast.raised = None
                           THEN Some([current |-> current.ret[1],
                                      forecast |-> forecast.ret[1]])
                           ELSE Some([current |-> current.ret[1]]),
               raised  |-> None,
               cache   |-> forecast.cache,
               sets    |-> current.sets \cup forecast.sets,
               evicted |-> current.evicted \cup forecast.evicted,
               calls   |-> current.calls \o forecast.calls,
               failed  |-> forecast.failed,
               logged  |-> current.logged \o forecast.logged ]

\* get_all_weather_data's try block: get_current_weather, then get_forecast
CurrentThenForecast(c, t, ttl, key, city, outC, outF) ==
    LET current == GetCurrentWeather(c, t, ttl, key, city, outC)
        forecast == GetForecast(current.cache, t, ttl, key, city, outF)
    IN  IF current.raised # None THEN current
        ELSE [ ret     |-> IF forecast.raised = None
                           THEN Some([current |-> current.ret[1],
                                      forecast |-> forecast.ret[1]])
                           ELSE None,
               raised  |-> forecast.raised,
               cache   |-> forecast.cache,
               sets    |-> current.sets \cup forecast.sets,
               evicted |-> current.evicted \cup forecast.evicted,
               calls   |-> current.calls \o forecast.calls,
               failed  |-> forecast.failed,
               logged  |-> current.logged \o forecast.logged ]

\* One request served: h is what its handler did.
Served(op, request, h) ==
    /\ cache' = h.cache
    /\ lastCall' = [ op |-> op, request |-> request, status |-> h.response.status,
                     body |-> h.response.body, failed |-> h.failed,
                     evicted |-> h.evicted ]
    /\ logged' = h.logged
    /\ upstream' = h.calls
    /\ setAt' = Recorded(setAt, h.sets, now)
    /\ fetched' = Fetched(fetched, h.sets, now)
    /\ models' = h.models
    /\ UNCHANGED <<api_key, expiry, now, threads>>

\* GET /api/weather/current
ApiCurrentWeather(args, out) ==
    LET city == DictGet(args, "city")
    IN  Served("/api/weather/current", args,
               IF NotCity(city) THEN Rejected
               ELSE Handled("Fetching current weather for ",
                            "Error fetching current weather for ", city[1],
                            GetCurrentWeather(cache, now, expiry, api_key, city[1], out),
                            FALSE))

\* GET /api/weather/forecast
ApiForecast(args, out) ==
    LET city == DictGet(args, "city")
    IN  Served("/api/weather/forecast", args,
               IF NotCity(city) THEN Rejected
               ELSE Handled("Fetching 5-day forecast for ",
                            "Error fetching forecast for ", city[1],
                            GetForecast(cache, now, expiry, api_key, city[1], out),
                            FALSE))

\* GET /api/weather/all
ApiAllWeatherData(args, outC, outF) ==
    LET city == DictGet(args, "city")
    IN  Served("/api/weather/all", args,
               IF NotCity(city) THEN Rejected
               ELSE Handled("Fetching all weather data for ",
                            "Error fetching weather data for ", city[1],
                            CurrentThenForecast(cache, now, expiry, api_key, city[1],
                                                outC, outF),
                            FALSE))

\* GET /api/weather/enhanced-forecast
ApiEnhancedForecast(args, out, today) ==
    LET city == DictGet(args, "city")
    IN  Served("/api/weather/enhanced-forecast", args,
               IF NotCity(city) THEN Rejected
               ELSE Handled("Fetching AI-enhanced forecast for ",
                            "Error fetching AI-enhanced forecast for ", city[1],
                            GetEnhancedForecast(cache, now, expiry, api_key, models,
                                                city[1], out, today),
                            FALSE))

\* POST /api/weather/alerts: not data or 'city' not in data
ApiPersonalizedAlerts(json, outF, outC, today) ==
    Served("/api/weather/alerts", json,
           IF json = None \/ DOMAIN json[1] = {} \/ "city" \notin DOMAIN json[1]
           THEN Rejected
           ELSE LET city == json[1].city
                    user_preferences ==
                        IF "preferences" \in DOMAIN json[1] THEN json[1].preferences
                        ELSE [x \in {} |-> 0]
                IN  Handled("Generating personalized alerts for ",
                            "Error generating personalized alerts for ", city,
                            GetPersonalizedAlerts(cache, now, expiry, api_key, models,
                                                  city, user_preferences, outF, outC,
                                                  today),
                            TRUE))

\* GET /api/recommendations/clothing
ApiClothingRecommendations(args, outC, outF, today) ==
    LET city == DictGet(args, "city")
    IN  Served("/api/recommendations/clothing", args,
               IF NotCity(city) THEN Rejected
               ELSE Handled("Generating clothing recommendations for ",
                            "Error generating clothing recommendations for ", city[1],
                            GetClothingRecommendations(cache, api_key, city[1],
                                                       outC, outF, today),
                            FALSE))

(***************************************************************************)
(* The weather client called on its own.                                   *)
(***************************************************************************)
\* One call of a service method, with the result r; more is what else the call
\* record holds
Called(op, city, r, more) ==
    /\ cache' = r.cache
    /\ lastCall' = [op |-> op, city |-> city, ret |-> r.ret, raised |-> r.raised,
                    evicted |-> r.evicted, failed |-> r.failed] @@ more
    /\ logged' = r.logged
    /\ upstream' = r.calls
    /\ setAt' = Recorded(setAt, r.sets, now)
    /\ fetched' = Fetched(fetched, r.sets, now)
    /\ models' = IF "models" \in DOMAIN r THEN r.models ELSE models
    /\ UNCHANGED <<api_key, expiry, now, threads>>

NoMore == [x \in {} |-> None]

CurrentWeatherCall(city, out) ==
    Called("get_current_weather", city,
           GetCurrentWeather(cache, now, expiry, api_key, city, out), NoMore)

ForecastCall(city, out) ==
    Called("get_forecast", city,
           GetForecast(cache, now, expiry, api_key, city, out), NoMore)

\* app.py: the services as constructed at start-up
Init ==
    /\ api_key \in ApiKeys
    /\ expiry = AppExpiry
    /\ cache = EmptyCache
    /\ now = 0
    /\ models = {}
    /\ lastCall = [op |-> "init"]
    /\ logged = <<>>
    /\ upstream = <<>>
    /\ setAt = [k \in CacheKeys |-> None]
    /\ fetched = [f \in Fetches |-> None]
    /\ threads = NoThreads

\* The failures the upstream shows in the service-level specifications: an HTTP
\* error whose text holds the request URL with the key in it, and a payload
\* that lacks a field.
UrlError == <<"4", "0", "1", "?", "q", "&">> \o <<"a", "b">> \o <<"&">>
AppFailures ==
    { RequestException(UrlError, Some([ok |-> FALSE, text |-> UrlError])),
      OtherException(KeyErrorText) }

InitClient == Init /\ api_key = <<"a", "b">>

\* The current weather is asked for both cities, the forecast for one.
NextClient ==
    \/ Tick
    \/ \E city \in Cities : \E out \in {Ok(d) : d \in AppCurrent(city)} \cup AppFailures :
           CurrentWeatherCall(city, out)
    \/ \E out \in {Ok(d) : d \in AppForecast(<<"p">>)} \cup AppFailures :
           ForecastCall(<<"p">>, out)

SpecClient == InitClient /\ [][NextClient]_vars

(***************************************************************************)
(* The weather client failing with every short error text over the         *)
(* characters of the keys: texts without the key, with one occurrence,     *)
(* with two, with occurrences that overlap.                                *)
(***************************************************************************)
\* The longest upstream error text.
MaxMsgLen == 4

MsgChars == {"a", "b"}
Messages == UNION { [1..n -> MsgChars] : n \in 0..MaxMsgLen }

RedactOutcomes(data) == {Ok(data)} \cup RequestExceptions(Messages)

NextRedact ==
    \/ \E out \in RedactOutcomes(CurrentAt(<<"p">>, 180)) : CurrentWeatherCall(<<"p">>, out)
    \/ \E out \in RedactOutcomes(ForecastAt(<<"p">>, 180)) : ForecastCall(<<"p">>, out)

SpecRedact == Init /\ [][NextRedact]_vars

(***************************************************************************)
(* Alert generation on its own: get_personalized_alerts called with        *)
(* forecasts, current conditions and preferences that make every rule fire *)
(* below, at and above the threshold.                                      *)
(***************************************************************************)
\* The longest forecast list put together from AlertItems.
MaxSlots == 2

TxtThunderstorm == <<"T", "h", "u", "n", "d", "e", "r", "s", "t", "o", "r", "m">>
TxtThunderstormHeavyRain == <<"t", "h", "u", "n", "d", "e", "r", "s", "t", "o", "r", "m", " ", "w", "i", "t", "h", " ", "h", "e", "a", "v", "y", " ", "r", "a", "i", "n">>
TxtSnow == <<"S", "n", "o", "w">>
TxtLightSnow == <<"l", "i", "g", "h", "t", " ", "s", "n", "o", "w">>
TxtClouds == <<"C", "l", "o", "u", "d", "s">>
TxtFewClouds == <<"f", "e", "w", " ", "c", "l", "o", "u", "d", "s">>
TxtHeavyRain == <<"h", "e", "a", "v", "y", " ", "i", "n", "t", "e", "n", "s", "i", "t", "y", " ", "r", "a", "i", "n">>

\* item with the field rain: {"3h": volume}
WithRain(item, volume) ==
    [k \in DOMAIN item \cup {"rain"} |->
        IF k = "rain" THEN [h \in {"3h"} |-> volume] ELSE item[k]]

\* data with the field alerts
WithAlerts(data, alerts) ==
    [k \in DOMAIN data \cup {"alerts"} |-> IF k = "alerts" THEN alerts ELSE data[k]]

Today == <<1, 9>>

AlertItems ==
    { ForecastItem(1, 12, 180, 50, 30, TxtClear, TxtClearSky),
      ForecastItem(1, 12, 350, 70, 140, TxtClouds, TxtFewClouds),
      ForecastItem(1, 15, 400, 50, 220, TxtThunderstorm, TxtThunderstormHeavyRain),
      WithRain(ForecastItem(1, 18, 200, 80, 60, TxtRain, TxtLightRain), 4),
      WithRain(ForecastItem(1, 21, 120, 80, 60, TxtRain, TxtHeavyRain), 70),
      WithRain(ForecastItem(2, 0, -57, 80, 110, TxtSnow, TxtLightSnow), 120),
      ForecastItem(2, 3, -160, 40, 20, TxtClear, TxtClearSky) }

\* a list longer than the slots looked at: quiet items, then a thunderstorm
LongForecast ==
    [i \in 1..(SlotsAhead + 1) |->
        IF i <= SlotsAhead
        THEN ForecastItem(1 + (i \div 8), 3 * (i % 8), 180, 50, 30, TxtClear, TxtClearSky)
        ELSE ForecastItem(3, 3, 180, 50, 30, TxtThunderstorm, TxtThunderstormHeavyRain)]

\* The forecasts: up to MaxSlots items in the order of their times, and the long one
AlertForecasts ==
    { ForecastData(<<"p">>, items) :
        items \in UNION { {l \in [1..n -> AlertItems] :
                              \A i, j \in 1..n : i < j => l[i].dt < l[j].dt}
                          : n \in 0..MaxSlots } \cup {LongForecast} }

AlertCurrents ==
    { CurrentAt(<<"p">>, 180),
      CurrentData(<<"p">>, 360, 70, 30, TxtClear, TxtClearSky),
      CurrentData(<<"p">>, 150, 90, 120, TxtThunderstorm, TxtThunderstormHeavyRain),
      WithAlerts(CurrentAt(<<"p">>, 180), << [event |-> "Flood", description |-> "River" ] >>) }

\* user_preferences: nothing given, a threshold at, just above and far above the
\* severities of the rules, sensitivities that switch rules off and on
AlertPreferences ==
    { [x \in {} |-> 0],
      [alert_threshold |-> 90],
      [alert_threshold |-> 71, rain_sensitivity |-> 100],
      [alert_threshold |-> 0, temp_sensitivity |-> 30, wind_sensitivity |-> 100] }

AlertsCall(city, prefs, outF, outC, today) ==
    Called("get_personalized_alerts", city,
           GetPersonalizedAlerts(cache, now, expiry, api_key, models, city, prefs,
                                 outF, outC, today),
           [ prefs |-> prefs,
             generated |-> AlertsBeforeFilter(cache, now, expiry, api_key, models, city,
                                              prefs, outF, outC, today) ])

InitAlerts == Init /\ api_key = <<"a", "b">>

\* The upstream's forecast is drawn when the call asks for it, which it does
\* unless the cache serves the enhanced forecast.
NextAlerts ==
    \E prefs \in AlertPreferences, cur \in AlertCurrents :
        \E f \in IF CacheGet(cache, now, expiry, EnhancedKey(<<"p">>)).ret = None
                  THEN AlertForecasts ELSE {ForecastAt(<<"p">>, 180)} :
            AlertsCall(<<"p">>, prefs, Ok(f), Ok(cur), Today)

SpecAlerts == InitAlerts /\ [][NextAlerts]_vars

(***************************************************************************)
(* The application: requests to the six endpoints, with and without a      *)
(* city, the upstream answering or failing, the clock advancing between    *)
(* requests.                                                               *)
(***************************************************************************)
NoDict == [x \in {} |-> 0]

\* Query strings: no city, an empty city, a city.
Queries == { NoDict, [city |-> <<>>], [city |-> <<"p">>] }

\* JSON bodies: none, {}, no city, an empty city, a city, a city and preferences.
Bodies ==
    { None, Some(NoDict), Some([preferences |-> [alert_threshold |-> 90]]),
      Some([city |-> <<>>]), Some([city |-> <<"p">>]),
      Some([city |-> <<"p">>, preferences |-> [alert_threshold |-> 0]]) }

\* What the upstream answers to a request for city: OpenWeatherMap rejects an
\* empty q (400, nothing to geocode).
CurrentOutcomes(city) ==
    IF city = <<>> THEN {RequestException(UrlError, Some([ok |-> FALSE, text |-> UrlError]))}
    ELSE {Ok(CurrentAt(city, 180))} \cup AppFailures
ForecastOutcomes(city) ==
    IF city = <<>> THEN {RequestException(UrlError, Some([ok |-> FALSE, text |-> UrlError]))}
    ELSE {Ok(ForecastAt(city, 180))} \cup AppFailures

\* The city a query asks the upstream about.
Asked(args) == IF "city" \in DOMAIN args THEN args.city ELSE <<>>

\* The clock advances by the TTL at most MaxExpiries times.
MaxExpiries == 1

\* Time passes between two requests: what the cache holds is then expired.
Expire ==
    /\ now < MaxExpiries * AppExpiry
    /\ now' = now + AppExpiry
    /\ lastCall' = [op |-> "tick"]
    /\ logged' = <<>>
    /\ upstream' = <<>>
    /\ UNCHANGED <<api_key, expiry, cache, models, setAt, fetched, threads>>

InitApp == Init /\ api_key = <<"a", "b">>

Next ==
    \/ Expire
    \/ \E args \in Queries : \E out \in CurrentOutcomes(Asked(args)) :
           ApiCurrentWeather(args, out)
    \/ \E args \in Queries : \E out \in ForecastOutcomes(Asked(args)) :
           ApiForecast(args, out)
    \/ \E args \in Queries :
           \E outC \in CurrentOutcomes(Asked(args)), outF \in ForecastOutcomes(Asked(args)) :
               ApiAllWeatherData(args, outC, outF)
    \/ \E args \in Queries : \E out \in ForecastOutcomes(Asked(args)) :
           ApiEnhancedForecast(args, out, Today)
    \/ \E json \in Bodies :
           LET city == IF json = None THEN <<>> ELSE Asked(json[1])
           IN  \E outF \in ForecastOutcomes(city), outC \in CurrentOutcomes(city) :
                   ApiPersonalizedAlerts(json, outF, outC, Today)
    \/ \E args \in Queries :
           \E outC \in CurrentOutcomes(Asked(args)), outF \in ForecastOutcomes(Asked(args)) :
               ApiClothingRecommendations(args, outC, outF, Today)

Spec == InitApp /\ [][Next]_vars

(***************************************************************************)
(* The alert rules on their own: get_personalized_alerts called once on    *)
(* the services as constructed, for a forecast slot, current conditions    *)
(* and preferences drawn at, below and above every limit the rules         *)
(* compare with.                                                           *)
(***************************************************************************)
\* Upstream temperatures: around -15, 5 * 0.5, 30 * 0.5 and 35 degrees.
RuleTemps == { -160, -150, 20, 25, 150, 151, 200, 350, 351, 400 }
\* Upstream humidities: at and above 60 %.
RuleHumidities == { 60, 61 }
\* Upstream wind speeds: around 10 * 0.5 and 10 m/s, and above 20 m/s.
RuleWinds == { 30, 50, 51, 100, 101, 220 }
\* Upstream 3h rain volumes (no field rain, or tenths of a mm): around 1.0 * 0.5.
RuleRains == { None, Some(5), Some(6), Some(120) }
\* Upstream condition texts.
RuleConditions ==
    { <<TxtClear, TxtClearSky>>, <<TxtThunderstorm, TxtThunderstormHeavyRain>>,
      <<TxtSnow, TxtLightSnow>>, <<TxtRain, TxtHeavyRain>> }

\* A slot of today with these values.
RuleSlot(hour, temp, humidity, wind, rain, condition) ==
    LET item == ForecastItem(Today[1], hour, temp, humidity, wind,
                             condition[1], condition[2])
    IN  IF rain = None THEN item ELSE WithRain(item, rain[1])

\* user_preferences: defaults, every threshold rule at sensitivity 0.3 (off) and
\* just above it (on), high sensitivities, thresholds 0, 0.7 and below 0.
RulePreferences ==
    { NoDict,
      [alert_threshold |-> 0],
      [alert_threshold |-> -100],
      [alert_threshold |-> 0, rain_sensitivity |-> 30, temp_sensitivity |-> 30,
       wind_sensitivity |-> 30],
      [alert_threshold |-> 0, rain_sensitivity |-> 31, temp_sensitivity |-> 31,
       wind_sensitivity |-> 31],
      [alert_threshold |-> 70, rain_sensitivity |-> 100, temp_sensitivity |-> 100,
       wind_sensitivity |-> 100],
      [alert_threshold |-> 70, rain_sensitivity |-> 30, temp_sensitivity |-> 0,
       wind_sensitivity |-> 200] }

\* n quiet items, then the slot
QuietThen(n, slot) ==
    [i \in 1..(n + 1) |->
        IF i <= n
        THEN ForecastItem(1 + (i \div 8), 3 * (i % 8), 180, 50, 30, TxtClear, TxtClearSky)
        ELSE slot]

\* The forecast lists: one slot at hour 9 (no offset) with every combination of
\* values; at hour 12 and 23 (offsets) a slot near 35 degrees; a thunderstorm
\* as the 16th and as the 17th item.
RuleForecasts ==
    { <<RuleSlot(9, t, h, w, r, c)>> :
        t \in RuleTemps, h \in RuleHumidities, w \in RuleWinds, r \in RuleRains,
        c \in RuleConditions }
    \cup { <<RuleSlot(hr, t, 70, 30, None, <<TxtClear, TxtClearSky>>)>> :
             hr \in {12, 23}, t \in {345, 346, 353, 354} }
    \cup { QuietThen(n, ForecastItem(3, 9, 180, 50, 30, TxtThunderstorm,
                                     TxtThunderstormHeavyRain)) :
             n \in {SlotsAhead - 1, SlotsAhead} }

\* Current conditions: calm, and what would exceed the rules' limits now.
RuleCurrents ==
    { CurrentAt(<<"p">>, 180),
      CurrentData(<<"p">>, 350, 70, 30, TxtClear, TxtClearSky),
      CurrentData(<<"p">>, 351, 70, 30, TxtClear, TxtClearSky),
      CurrentData(<<"p">>, 351, 60, 30, TxtClear, TxtClearSky),
      CurrentData(<<"p">>, 200, 50, 120, TxtClear, TxtClearSky),
      CurrentData(<<"p">>, 10, 50, 30, TxtClear, TxtClearSky),
      CurrentData(<<"p">>, 150, 90, 120, TxtThunderstorm, TxtThunderstormHeavyRain) }

\* A quiet forecast slot.
QuietForecast == << ForecastItem(Today[1], 9, 180, 50, 30, TxtClear, TxtClearSky) >>

\* What a call is made with: every forecast under calm current conditions, every
\* current conditions under a quiet forecast.
RuleInputs ==
    { [op |-> "input", forecast |-> ForecastData(<<"p">>, f),
       current |-> CurrentAt(<<"p">>, 180), prefs |-> p] :
        f \in RuleForecasts, p \in RulePreferences }
    \cup { [op |-> "input", forecast |-> ForecastData(<<"p">>, QuietForecast),
            current |-> c, prefs |-> p] :
             c \in RuleCurrents, p \in RulePreferences }

InitRules ==
    /\ api_key = <<"a", "b">>
    /\ expiry = AppExpiry
    /\ cache = EmptyCache
    /\ now = 0
    /\ models = {}
    /\ lastCall \in RuleInputs
    /\ logged = <<>>
    /\ upstream = <<>>
    /\ setAt = [k \in CacheKeys |-> None]
    /\ fetched = [f \in Fetches |-> None]
    /\ threads = NoThreads

\* get_personalized_alerts("p", prefs), the upstream answering with the input's
\* forecast and current conditions
RulesCall ==
    /\ lastCall.op = "input"
    /\ Called("get_personalized_alerts", <<"p">>,
              GetPersonalizedAlerts(cache, now, expiry, api_key, models, <<"p">>,
                                    lastCall.prefs, Ok(lastCall.forecast),
                                    Ok(lastCall.current), Today),
              [ prefs |-> lastCall.prefs,
                forecast |-> lastCall.forecast,
                current |-> lastCall.current,
                generated |-> AlertsBeforeFilter(cache, now, expiry, api_key, models,
                                                 <<"p">>, lastCall.prefs,
                                                 Ok(lastCall.forecast),
                                                 Ok(lastCall.current), Today) ])

SpecRules == InitRules /\ [][RulesCall]_vars

(***************************************************************************)
(* The enhancement on its own: get_enhanced_forecast on an empty cache,    *)
(* for upstream forecasts with intervals at every hour of day, from before *)
(* now to more than 70 hours ahead.                                        *)
(***************************************************************************)
\* The upstream forecast reaches this many days (day 1 is today).
MaxDays == 4

\* Upstream temperature and feels-like of an interval.
EnhanceTemps == { <<180, 165>>, <<-57, -90>> }

\* An upstream interval whose feels-like differs from its temperature.
EnhanceItemAt(date, hour, temps) ==
    [ ForecastItem(date, hour, temps[1], 50, 30, TxtClear, TxtClearSky)
        EXCEPT !.main.feels_like = temps[2] ]

\* n intervals three hours apart, the first at the given day and hour
ThreeHourly(date, hour, n) ==
    [i \in 1..n |->
        LET h == hour + 3 * (i - 1)
        IN  EnhanceItemAt(date + (h \div 24), h % 24, <<180, 165>>)]

\* The upstream forecast lists: one interval at every day and hour, without and
\* with a rain field; two and three intervals three hours apart.
EnhanceForecasts ==
    { <<EnhanceItemAt(d, h, t)>> : d \in 1..MaxDays, h \in 0..23, t \in EnhanceTemps }
    \cup { <<WithRain(EnhanceItemAt(d, h, <<180, 165>>), 12)>> :
             d \in 1..MaxDays, h \in 0..23 }
    \cup { ThreeHourly(d, 3 * h, n) : d \in 1..MaxDays, h \in 0..7, n \in 2..3 }

InitEnhance ==
    /\ api_key = <<"a", "b">>
    /\ expiry = AppExpiry
    /\ cache = EmptyCache
    /\ now = 0
    /\ models = {}
    /\ lastCall \in { [op |-> "input", forecast |-> ForecastData(<<"p">>, f)] :
                        f \in EnhanceForecasts }
    /\ logged = <<>>
    /\ upstream = <<>>
    /\ setAt = [k \in CacheKeys |-> None]
    /\ fetched = [f \in Fetches |-> None]
    /\ threads = NoThreads

\* get_enhanced_forecast("p"), the upstream answering with the input's forecast
EnhanceCall ==
    /\ lastCall.op = "input"
    /\ Called("get_enhanced_forecast", <<"p">>,
              GetEnhancedForecast(cache, now, expiry, api_key, models, <<"p">>,
                                  Ok(lastCall.forecast), Today),
              [ forecast |-> lastCall.forecast ])

SpecEnhance == InitEnhance /\ [][EnhanceCall]_vars

(***************************************************************************)
(* The clothing recommendations on their own: get_clothing_recommendations *)
(* for every condition now, in the morning slot and in the evening slot,   *)
(* at a clock before noon, in the afternoon and in the evening.            *)
(***************************************************************************)
TxtDrizzle == <<"D", "r", "i", "z", "z", "l", "e">>
TxtLightDrizzle ==
    <<"l", "i", "g", "h", "t", " ", "d", "r", "i", "z", "z", "l", "e">>

\* Upstream condition texts: main and description.
ClothingConditions ==
    { <<TxtClear, TxtClearSky>>, <<TxtRain, TxtLightRain>>,
      <<TxtDrizzle, TxtLightDrizzle>>, <<TxtThunderstorm, TxtThunderstormHeavyRain>>,
      <<TxtClouds, TxtFewClouds>> }

\* Current conditions: cold, mild and hot, calm and windy.
ClothingCurrents ==
    { CurrentData(<<"p">>, t, 50, w, c[1], c[2]) :
        t \in {-57, 180, 320}, w \in {30, 120}, c \in ClothingConditions }

\* The forecast of today and tomorrow: a slot at 9h and a slot at 18h today, each
\* with any condition or missing, then tomorrow's rainy 9h slot.
ClothingForecasts ==
    LET Slot(hour, temp, c) ==
            IF c = None THEN <<>>
            ELSE << ForecastItem(Today[1], hour, temp, 50, 30, c[1][1], c[1][2]) >>
        Maybe == {None} \cup { Some(c) : c \in ClothingConditions }
    IN  { Slot(9, 180, m) \o Slot(18, -57, e)
              \o << ForecastItem(Today[1] + 1, 9, 180, 80, 30, TxtRain, TxtLightRain) >> :
            m \in Maybe, e \in Maybe }

\* datetime.now(): the morning, the afternoon and the evening of today
ClothingClocks == { <<Today[1], 9>>, <<Today[1], 13>>, <<Today[1], 19>> }

InitClothing ==
    /\ api_key = <<"a", "b">>
    /\ expiry = AppExpiry
    /\ cache = EmptyCache
    /\ now = 0
    /\ models = {}
    /\ lastCall \in { [op |-> "input", current |-> c,
                       forecast |-> ForecastData(<<"p">>, f), today |-> d] :
                        c \in ClothingCurrents, f \in ClothingForecasts,
                        d \in ClothingClocks }
    /\ logged = <<>>
    /\ upstream = <<>>
    /\ setAt = [k \in CacheKeys |-> None]
    /\ fetched = [f \in Fetches |-> None]
    /\ threads = NoThreads

\* get_clothing_recommendations("p"), the upstream answering with the input's
\* current conditions and forecast, the clock at the input's time
ClothingCall ==
    /\ lastCall.op = "input"
    /\ Called("get_clothing_recommendations", <<"p">>,
              GetClothingRecommendations(cache, api_key, <<"p">>, Ok(lastCall.current),
                                         Ok(lastCall.forecast), lastCall.today),
              [ current |-> lastCall.current, forecast |-> lastCall.forecast,
                today |-> lastCall.today ])

SpecClothing == InitClothing /\ [][ClothingCall]_vars

(***************************************************************************)
(* C1: a get returns a value only if the key was last set less than expiry *)
(* seconds before (whatever was read in between), and it is then the value *)
(* that was set; a get of a key whose last set is expiry seconds old or    *)
(* more returns None and leaves no entry under the key, with or without a  *)
(* cleanup before it.                                                      *)
(***************************************************************************)
C1_LazyExpiry ==
    lastCall.op = "get" =>
        LET k == lastCall.key
        IN  /\ lastCall.ret # None =>
                  /\ setAt[k] # None
                  /\ now - setAt[k][1] < expiry
                  /\ lastCall.ret = Some(setAt[k][2])
            /\ (setAt[k] # None /\ now - setAt[k][1] >= expiry) =>
                  /\ lastCall.ret = None
                  /\ k \notin DOMAIN cache

\* a get has just evicted an entry that is exactly expiry seconds old, while the
\* other key is still stored
C1_Witness ==
    /\ lastCall.op = "get"
    /\ lastCall.evicted = {lastCall.key}
    /\ lastCall.ret = None
    /\ now - setAt[lastCall.key][1] = expiry
    /\ DOMAIN cache # {}

(***************************************************************************)
(* C7: a get(k) that directly follows set(k, v) returns v.                 *)
(***************************************************************************)
C7_SetThenGet ==
    ( /\ lastCall.op = "get"
      /\ lastCall.after.op = "set"
      /\ lastCall.after.key = Some(lastCall.key) )
        => lastCall.ret = lastCall.after.value

\* the get follows a set that overwrote an older entry of the key with another value
C7_Witness ==
    /\ lastCall.op = "get"
    /\ lastCall.after.op = "set"
    /\ lastCall.after.key = Some(lastCall.key)
    /\ lastCall.ret # None
    /\ now > 0
    /\ \E k \in DOMAIN cache : cache[k].timestamp < now

(***************************************************************************)
(* C8: a cleanup leaves no entry whose age is expiry or more, and keeps    *)
(* every younger entry with its value and timestamp; it adds nothing.      *)
(***************************************************************************)
C8_CleanupExact ==
    [][ lastCall'.op = "cleanup" =>
            /\ \A k \in DOMAIN cache' : now' - cache'[k].timestamp < expiry
            /\ \A k \in DOMAIN cache :
                   now - cache[k].timestamp < expiry =>
                       k \in DOMAIN cache' /\ cache'[k] = cache[k]
            /\ DOMAIN cache' \subseteq DOMAIN cache
            /\ now' = now ]_vars

\* a cleanup has removed one entry and kept the other
C8_Witness ==
    /\ lastCall.op = "cleanup"
    /\ Cardinality(lastCall.removed) = 1
    /\ Cardinality(DOMAIN cache) = 1
    /\ \E k \in lastCall.removed : now - setAt[k][1] = expiry

(***************************************************************************)
(* C9: delete(k) returns whether k was stored; afterwards k is not stored, *)
(* every other key has the entry it had, and a get(k) that follows         *)
(* directly returns None.                                                  *)
(***************************************************************************)
C9_Delete ==
    /\ [][ lastCall'.op = "delete" =>
            LET k == lastCall'.key
            IN  /\ lastCall'.ret = (k \in DOMAIN cache)
                /\ k \notin DOMAIN cache'
                /\ DOMAIN cache' = DOMAIN cache \ {k}
                /\ \A j \in DOMAIN cache' : cache'[j] = cache[j]
                /\ (k \notin DOMAIN cache => cache' = cache) ]_vars
    /\ []( ( /\ lastCall.op = "get"
             /\ lastCall.after.op = "delete"
             /\ lastCall.after.key = Some(lastCall.key) )
               => lastCall.ret = None )

\* a delete has removed a stored key and the other key is still stored
C9_Witness ==
    /\ lastCall.op = "delete"
    /\ lastCall.ret = TRUE
    /\ DOMAIN cache # {}


(***************************************************************************)
(* C3: when get_current_weather or get_forecast raises after the upstream  *)
(* request failed, neither the text of the exception raised nor any line   *)
(* logged contains the API key, and the call made its one request.         *)
(***************************************************************************)
C3_ClientRedacts ==
    ( /\ lastCall.op \in {"get_current_weather", "get_forecast"}
      /\ lastCall.raised # None )
        => /\ ~Contains(lastCall.raised[1], api_key)
           /\ \A i \in DOMAIN logged : ~Contains(logged[i].text, api_key)
           /\ Len(logged) >= 1
           /\ Len(upstream) = 1

\* number of times the token tok occurs in text
CountOf(text, tok) == Cardinality({i \in DOMAIN text : text[i] = tok})

\* a call has raised with two occurrences of the key redacted, and has logged the
\* error line and the response content, each with both occurrences redacted
C3_Witness ==
    /\ lastCall.op \in {"get_current_weather", "get_forecast"}
    /\ lastCall.raised # None
    /\ CountOf(lastCall.raised[1], "[REDACTED]") = 2
    /\ Len(logged) = 2
    /\ \A i \in DOMAIN logged : CountOf(logged[i].text, "[REDACTED]") = 2

(***************************************************************************)
(* C6: a call of get_current_weather or get_forecast for a city whose last *)
(* successful fetch of the same operation and city is less than expiry     *)
(* seconds old returns the result of that fetch and makes no upstream      *)
(* request; any other call (nothing fetched yet, or the fetch is expiry    *)
(* seconds old or more) makes exactly one upstream request, for that       *)
(* operation and city, and when it returns a value the cache holds that    *)
(* value for the operation and city with the time of the call.             *)
(***************************************************************************)
C6_CacheFirst ==
    [][ lastCall'.op \in {"get_current_weather", "get_forecast"} =>
          LET current == lastCall'.op = "get_current_weather"
              city == lastCall'.city
              f == <<IF current THEN "current weather" ELSE "forecast", city>>
              k == (IF current THEN <<"current_weather_">> ELSE <<"forecast_">>) \o city
              fresh == fetched[f] # None /\ now - fetched[f][1] < expiry
          IN  /\ now' = now
              /\ fresh =>
                    /\ upstream' = <<>>
                    /\ lastCall'.ret = Some(fetched[f][2])
                    /\ lastCall'.raised = None
              /\ ~fresh =>
                    /\ upstream' = << Request(IF current THEN "weather" ELSE "forecast",
                                              city, api_key) >>
                    /\ (lastCall'.ret = None) # (lastCall'.raised = None)
                    /\ lastCall'.ret # None =>
                          /\ k \in DOMAIN cache'
                          /\ cache'[k] = [value |-> lastCall'.ret[1], timestamp |-> now]
                          /\ fetched'[f] = <<now, lastCall'.ret[1]>> ]_vars

\* a call made exactly expiry seconds after the fetch it follows has evicted the
\* entry, asked the upstream again and returned the new observation, which
\* differs from the one fetched before; the other operation's entry is untouched
C6_Witness ==
    /\ lastCall.op = "get_current_weather"
    /\ lastCall.evicted # {}
    /\ Len(upstream) = 1
    /\ lastCall.ret # None
    /\ now >= expiry
    /\ fetched[<<"current weather", lastCall.city>>] = <<now, lastCall.ret[1]>>
    /\ fetched[<<"forecast", lastCall.city>>] # None
    /\ ForecastKey(lastCall.city) \in DOMAIN cache

(***************************************************************************)
(* C10: the list get_personalized_alerts returns holds exactly the alerts  *)
(* generated whose severity is at least alert_threshold (0.7 when the      *)
(* preferences give none), each as often as it was generated, and is in    *)
(* order of non-increasing severity.                                       *)
(***************************************************************************)
C10_ThresholdAndOrder ==
    ( lastCall.op = "get_personalized_alerts" /\ lastCall.ret # None ) =>
        LET alerts == lastCall.ret[1]
            generated == lastCall.generated
            threshold == IF "alert_threshold" \in DOMAIN lastCall.prefs
                         THEN lastCall.prefs.alert_threshold ELSE 70
            Times(list, a) == Cardinality({i \in DOMAIN list : list[i] = a})
        IN  /\ \A i \in DOMAIN alerts : alerts[i].severity * 100 >= threshold * SevUnit
            /\ \A i \in DOMAIN generated :
                   Times(alerts, generated[i]) =
                       IF generated[i].severity * 100 >= threshold * SevUnit
                       THEN Times(generated, generated[i]) ELSE 0
            /\ \A i \in DOMAIN alerts : Times(generated, alerts[i]) > 0
            /\ \A i, j \in DOMAIN alerts :
                   i < j => alerts[i].severity >= alerts[j].severity

\* with the default threshold, an alert of severity exactly 0.7 is returned after
\* a more severe one, and an alert below 0.7 was generated and is not returned
C10_Witness ==
    /\ lastCall.op = "get_personalized_alerts"
    /\ lastCall.ret # None
    /\ "alert_threshold" \notin DOMAIN lastCall.prefs
    /\ \E i \in DOMAIN lastCall.ret[1] : lastCall.ret[1][i].severity * 100 = 70 * SevUnit
    /\ \E i \in DOMAIN lastCall.ret[1] : lastCall.ret[1][i].severity = SevUnit
    /\ Len(lastCall.generated) > Len(lastCall.ret[1])

\* The six routes.
Endpoints ==
    { "/api/weather/current", "/api/weather/forecast", "/api/weather/all",
      "/api/weather/enhanced-forecast", "/api/weather/alerts",
      "/api/recommendations/clothing" }

(***************************************************************************)
(* C2: on every endpoint, when an upstream call of the request failed,     *)
(* the API key occurs neither in the error text of the response body nor   *)
(* in any line the request logged.                                         *)
(***************************************************************************)
C2_KeyNeverSurfaces ==
    ( lastCall.op \in Endpoints /\ lastCall.failed # <<>> ) =>
        /\ "error" \in DOMAIN lastCall.body => ~Contains(lastCall.body.error, api_key)
        /\ \A i \in DOMAIN logged : ~Contains(logged[i].text, api_key)

(***************************************************************************)
(* C4: a request to any of the six endpoints that carries no city (no      *)
(* city in the query string; no JSON body or a body without 'city' for the *)
(* alerts) is answered with status 400 and a body that is {error}, makes   *)
(* no upstream call and leaves the cache as it was.                        *)
(***************************************************************************)
C4_MissingCityRejected ==
    [][ ( /\ lastCall'.op \in Endpoints
          /\ IF lastCall'.op = "/api/weather/alerts"
             THEN lastCall'.request = None \/ "city" \notin DOMAIN lastCall'.request[1]
             ELSE "city" \notin DOMAIN lastCall'.request )
        => /\ lastCall'.status = 400
           /\ DOMAIN lastCall'.body = {"error"}
           /\ upstream' = <<>>
           /\ cache' = cache ]_vars

\* a body with preferences and no city was rejected while the cache held entries
C4_Witness ==
    /\ lastCall.op = "/api/weather/alerts"
    /\ lastCall.request # None
    /\ DOMAIN lastCall.request[1] = {"preferences"}
    /\ lastCall.status = 400
    /\ upstream = <<>>
    /\ DOMAIN cache # {}

(***************************************************************************)
(* C5: when an upstream call of a request failed, the response has status  *)
(* 500 and a body that is {error} and nothing else, and the failed call    *)
(* was made exactly once.                                                  *)
(***************************************************************************)
C5_FailureAborts ==
    ( lastCall.op \in Endpoints /\ lastCall.failed # <<>> ) =>
        /\ lastCall.status = 500
        /\ DOMAIN lastCall.body = {"error"}
        /\ \A i \in DOMAIN lastCall.failed :
               Cardinality({j \in DOMAIN upstream : upstream[j] = lastCall.failed[i]}) = 1

\* /all fetched the current weather from the upstream and cached it, and the
\* forecast request failed: the response is the error alone
C5_Witness ==
    /\ lastCall.op = "/api/weather/all"
    /\ Len(upstream) = 2
    /\ lastCall.failed = << upstream[2] >>
    /\ CurrentKey(<<"p">>) \in DOMAIN cache
    /\ lastCall.status = 500

(***************************************************************************)
(* C11: every alert get_personalized_alerts returns has a severity from 0  *)
(* to 1, whatever the temperatures, winds, rain volumes and preferences.   *)
(***************************************************************************)
C11_SeverityInUnitInterval ==
    ( lastCall.op = "get_personalized_alerts" /\ lastCall.ret # None ) =>
        \A i \in DOMAIN lastCall.ret[1] :
            /\ 0 <= lastCall.ret[1][i].severity
            /\ lastCall.ret[1][i].severity <= SevUnit

\* The condition texts of a slot, as the rules read them.
TextsOf(weather) == <<Lower(weather[1].main), Lower(weather[1].description)>>

\* 'thunderstorm' is in the condition text
Thunderstorm(weather) ==
    \E i \in 1..2 : Contains(TextsOf(weather)[i], T_thunderstorm)

\* the list holds an alert of severity 1.0 for the time
SevereAt(alerts, time) ==
    \E i \in DOMAIN alerts : alerts[i].time = time /\ alerts[i].severity = SevUnit

(***************************************************************************)
(* C12: when the condition text of the current conditions or of one of the *)
(* first 16 forecast slots contains 'thunderstorm', the list returned for  *)
(* a threshold of 0.7 (or less) holds an alert of severity 1.0 for that    *)
(* slot, whatever the three sensitivities are.                             *)
(***************************************************************************)
C12_ThunderstormAlways ==
    ( /\ lastCall.op = "get_personalized_alerts"
      /\ lastCall.ret # None
      /\ PrefGet(lastCall.prefs, "alert_threshold", 70) <= 70 ) =>
        /\ Thunderstorm(lastCall.current.weather) => SevereAt(lastCall.ret[1], NowLabel)
        /\ \A i \in DOMAIN lastCall.forecast.list :
               ( i <= SlotsAhead /\ Thunderstorm(lastCall.forecast.list[i].weather) )
                   => SevereAt(lastCall.ret[1], lastCall.forecast.list[i].dt_txt)

\* a thunderstorm in the 16th slot, with the threshold rules' sensitivities at
\* 0.3, 0 and 2.0 and the threshold 0.7, is in the list returned
C12_Witness ==
    /\ lastCall.op = "get_personalized_alerts"
    /\ lastCall.ret # None
    /\ PrefGet(lastCall.prefs, "alert_threshold", 0) = 70
    /\ PrefGet(lastCall.prefs, "temp_sensitivity", 50) = 0
    /\ Len(lastCall.forecast.list) = 16
    /\ Thunderstorm(lastCall.forecast.list[16].weather)
    /\ SevereAt(lastCall.ret[1], lastCall.forecast.list[16].dt_txt)

(***************************************************************************)
(* C13: with several threads in the cache's methods, no method raises and  *)
(* neither get nor cleanup deletes an entry that was stored less than the  *)
(* TTL ago.                                                                *)
(***************************************************************************)
C13_ThreadsExcluded ==
    \A t \in DOMAIN threads : ~threads[t].raised /\ ~threads[t].evicted_fresh

\* the list holds an alert of the type for the time
AlertOf(alerts, type, time) ==
    \E i \in DOMAIN alerts : alerts[i].type = type /\ alerts[i].time = time

(***************************************************************************)
(* C14: the threshold rules are evaluated for the current conditions too:  *)
(* a current temperature or wind that exceeds its limit (the rule's        *)
(* sensitivity above 0.3) gives a high_temp, low_temp or wind alert        *)
(* labelled 'now' among the alerts generated, as the same values in a      *)
(* forecast slot do for that slot.                                         *)
(***************************************************************************)
C14_ThresholdRulesNow ==
    ( lastCall.op = "get_personalized_alerts" /\ lastCall.ret # None ) =>
        LET temp_sensitivity == PrefGet(lastCall.prefs, "temp_sensitivity", 50)
            wind_sensitivity == PrefGet(lastCall.prefs, "wind_sensitivity", 50)
            temp == lastCall.current.main.temp
            wind_speed == lastCall.current.wind.speed
        IN  /\ ( temp_sensitivity > 30 /\ temp > 3 * temp_sensitivity )
                   => AlertOf(lastCall.generated, "high_temp", NowLabel)
            /\ ( temp_sensitivity > 30 /\ temp <= 3 * temp_sensitivity
                                       /\ temp * 2 < temp_sensitivity )
                   => AlertOf(lastCall.generated, "low_temp", NowLabel)
            /\ ( wind_sensitivity > 30 /\ wind_speed > wind_sensitivity )
                   => AlertOf(lastCall.generated, "wind", NowLabel)

\* the list holds a heat alert of severity 0.95 for the time
HeatAlert(alerts, time) ==
    \E i \in DOMAIN alerts : /\ alerts[i].type = "heatwave"
                             /\ alerts[i].time = time
                             /\ alerts[i].severity * 100 = 95 * SevUnit

\* The slots the rules look at: the current conditions labelled 'now' and the
\* first 16 items of the enhanced forecast the call worked on, as
\* [time, temp, humidity].
SlotsLookedAt ==
    LET list == cache[EnhancedKey(<<"p">>)].value.list
    IN  { [time |-> NowLabel, temp |-> lastCall.current.main.temp,
           humidity |-> lastCall.current.main.humidity] }
        \cup { [time |-> list[i].dt_txt, temp |-> list[i].main.temp,
                humidity |-> list[i].main.humidity] :
                 i \in {j \in DOMAIN list : j <= SlotsAhead} }

(***************************************************************************)
(* C15: for every slot looked at, a heat alert of severity 0.95 is         *)
(* generated if the temperature is at least 35 degrees (35 included) and   *)
(* the humidity above 60 %, and none is generated if the temperature is    *)
(* below 35 or the humidity at most 60.                                    *)
(***************************************************************************)
C15_HeatFromThirtyFive ==
    ( lastCall.op = "get_personalized_alerts" /\ lastCall.ret # None ) =>
        \A slot \in SlotsLookedAt :
            IF slot.temp >= 350 /\ slot.humidity > 60
            THEN HeatAlert(lastCall.generated, slot.time)
            ELSE ~AlertOf(lastCall.generated, "heatwave", slot.time)

\* The types of the threshold rules.
ThresholdTypes == {"rain", "high_temp", "low_temp", "wind"}

\* [type, time, severity] of the alerts of these types, in the list's order
RowsOf(alerts, types) ==
    LET OfTypes(alert) == alert.type \in types
        chosen == SelectSeq(alerts, OfTypes)
    IN  [i \in DOMAIN chosen |->
            <<chosen[i].type, chosen[i].time, chosen[i].severity>>]

\* One row of the rule table: the rule is on above sensitivity 0.3 (hundredths),
\* fires on its condition, and its severity is at most 1.0 (600ths).
Row(type, time, sensitivity, fires, severity) ==
    IF sensitivity > 30 /\ fires
    THEN << <<type, time, IF severity > SevUnit THEN SevUnit ELSE severity>> >>
    ELSE <<>>

\* The rule table for one slot (temp, wind in tenths; volume in tenths of a mm
\* or None; sensitivities in hundredths; severities in 600ths):
\*   rain      volume > 1.0 * rain_sensitivity   min(volume / 10, 1)
\*   high_temp temp > 30 * temp_sensitivity      min((temp - 25) / 15, 1)
\*   low_temp  temp < 5 * temp_sensitivity       min((5 - temp) / 10, 1)
\*   wind      wind > 10 * wind_sensitivity      min(wind / 20, 1)
RuleTable(time, temp, wind, volume, rs, ts, ws) ==
    LET high == 100 * temp > 30 * 10 * ts
    IN  Row("rain", time, rs, volume # None /\ 100 * volume[1] > 10 * rs,
            IF volume = None THEN 0 ELSE (volume[1] * SevUnit) \div 100)
        \o Row("high_temp", time, ts, high, ((temp - 250) * SevUnit) \div 150)
        \o Row("low_temp", time, ts, ~high /\ 100 * temp < 5 * 10 * ts,
               ((50 - temp) * SevUnit) \div 100)
        \o Row("wind", time, ws, 100 * wind > 10 * 10 * ws,
               (wind * SevUnit) \div 200)

\* The 3h rain volume of a slot: None without the field rain, 0 without '3h'.
VolumeOf(day) ==
    IF "rain" \notin DOMAIN day THEN None
    ELSE IF "3h" \in DOMAIN day.rain THEN Some(day.rain["3h"]) ELSE Some(0)

\* The rule table over the first 16 slots of the enhanced forecast the call
\* worked on.
TableOfCall ==
    LET list == cache[EnhancedKey(<<"p">>)].value.list
        n == IF Len(list) < SlotsAhead THEN Len(list) ELSE SlotsAhead
        prefs == lastCall.prefs
    IN  Flatten([i \in 1..n |->
            RuleTable(list[i].dt_txt, list[i].main.temp, list[i].wind.speed,
                      VolumeOf(list[i]),
                      PrefGet(prefs, "rain_sensitivity", 50),
                      PrefGet(prefs, "temp_sensitivity", 50),
                      PrefGet(prefs, "wind_sensitivity", 50))])

(***************************************************************************)
(* C16: for every preference set, the rain, high_temp, low_temp and wind   *)
(* alerts generated before the filter are, slot by slot over the first 16  *)
(* slots, the rows of the rule table: a rule is on only above sensitivity  *)
(* 0.3, fires on its condition, and carries the table's severity.          *)
(***************************************************************************)
C16_ThresholdRuleTable ==
    ( lastCall.op = "get_personalized_alerts" /\ lastCall.ret # None ) =>
        RowsOf(lastCall.generated, ThresholdTypes) = TableOfCall

\* 12 mm of rain in a slot at the default rain sensitivity 0.5 gave a rain alert
\* of severity 1.0
C16_Witness ==
    /\ lastCall.op = "get_personalized_alerts"
    /\ lastCall.ret # None
    /\ "rain_sensitivity" \notin DOMAIN lastCall.prefs
    /\ VolumeOf(lastCall.forecast.list[1]) = Some(120)
    /\ <<"rain", lastCall.forecast.list[1].dt_txt, SevUnit>>
           \in { RowsOf(lastCall.generated, {"rain"})[i] :
                   i \in DOMAIN RowsOf(lastCall.generated, {"rain"}) }

\* The offset of the table: +0.5 for hours 10..16, -0.3 for hours 22, 23 and
\* 0..4, 0 for every other hour (tenths of a degree).
OffsetAt(hour) ==
    IF hour \in 10..16 THEN 5
    ELSE IF hour \in {22, 23} \cup 0..4 THEN -3
    ELSE 0

(***************************************************************************)
(* C17: every interval of the enhanced forecast is the upstream interval   *)
(* with the offset of its hour of day added to temp and to feels_like:     *)
(* +0.5 for hours 10..16, -0.3 for hours 22, 23 and 0..4, 0 otherwise; the *)
(* other fields of the interval are the upstream ones.                     *)
(***************************************************************************)
C17_OffsetByHour ==
    ( lastCall.op = "get_enhanced_forecast" /\ lastCall.ret # None ) =>
        LET before == lastCall.forecast.list
            after == lastCall.ret[1].list
        IN  /\ DOMAIN after = DOMAIN before
            /\ \A i \in DOMAIN before :
                 LET offset == OffsetAt(before[i].dt_txt[2])
                 IN  /\ after[i].main.temp = before[i].main.temp + offset
                     /\ after[i].main.feels_like = before[i].main.feels_like + offset
                     /\ DOMAIN after[i].main = DOMAIN before[i].main
                     /\ \A k \in DOMAIN before[i].main \ {"temp", "feels_like"} :
                            after[i].main[k] = before[i].main[k]
                     /\ DOMAIN before[i] \subseteq DOMAIN after[i]
                     /\ \A k \in DOMAIN before[i] \ {"main"} : after[i][k] = before[i][k]

\* an interval at hour 23 with a rain field lost 0.3 degrees on temp and on
\* feels_like
C17_Witness ==
    /\ lastCall.op = "get_enhanced_forecast"
    /\ lastCall.ret # None
    /\ lastCall.forecast.list[1].dt_txt[2] = 23
    /\ "rain" \in DOMAIN lastCall.ret[1].list[1]
    /\ lastCall.ret[1].list[1].main.temp = lastCall.forecast.list[1].main.temp - 3
    /\ lastCall.ret[1].list[1].main.feels_like
           = lastCall.forecast.list[1].main.feels_like - 3

\* Hours from now to the interval, now being Today.
HoursOut(item) == (item.dt_txt[1] - Today[1]) * 24 + (item.dt_txt[2] - Today[2])

(***************************************************************************)
(* C18: every enhanced interval carries the confidence                     *)
(* max(0.95 - hoursFromNow * 0.005, 0.6) (in thousandths): 0.95 at 0 hours,*)
(* never below 0.6, 0.6 from 70 hours on, and an interval further out      *)
(* never has the higher confidence; there is no upper clamp.               *)
(***************************************************************************)
C18_ConfidenceDecays ==
    ( lastCall.op = "get_enhanced_forecast" /\ lastCall.ret # None ) =>
        LET list == lastCall.ret[1].list
        IN  /\ \A i \in DOMAIN list :
                 LET hours == HoursOut(list[i])
                     linear == 950 - hours * 5
                 IN  /\ list[i].ai_confidence = IF linear >= 600 THEN linear ELSE 600
                     /\ hours = 0 => list[i].ai_confidence = 950
                     /\ list[i].ai_confidence >= 600
                     /\ hours >= 70 => list[i].ai_confidence = 600
            /\ \A i, j \in DOMAIN list :
                 HoursOut(list[i]) <= HoursOut(list[j])
                     => list[i].ai_confidence >= list[j].ai_confidence

\* three intervals 66, 69 and 72 hours out carry 0.62, 0.605 and 0.6
C18_Witness ==
    /\ lastCall.op = "get_enhanced_forecast"
    /\ lastCall.ret # None
    /\ Len(lastCall.ret[1].list) = 3
    /\ HoursOut(lastCall.ret[1].list[1]) = 66
    /\ lastCall.ret[1].list[1].ai_confidence = 620
    /\ lastCall.ret[1].list[2].ai_confidence = 605
    /\ HoursOut(lastCall.ret[1].list[3]) = 72
    /\ lastCall.ret[1].list[3].ai_confidence = 600

\* The routes of the three pipelines.
PipelineRoutes ==
    { "/api/weather/enhanced-forecast", "/api/weather/alerts",
      "/api/recommendations/clothing" }

(***************************************************************************)
(* C19: serving an enhanced-forecast, alerts or clothing request leaves    *)
(* the cache contents and the state of the services (the models, the API   *)
(* key, the TTL) as they were before the request.                          *)
(***************************************************************************)
C19_PipelinesLeaveState ==
    [][ lastCall'.op \in PipelineRoutes => UNCHANGED <<cache, models, api_key, expiry>> ]_vars

\* The condition of a payload as the recommendations read it: weather[0]['main'],
\* lowered.
ConditionOf(data) == Lower(data.weather[1].main)

\* The forecast item of the call at this hour of today.
ItemAtHour(hour) ==
    LET list == lastCall.forecast.list
    IN  list[CHOOSE i \in DOMAIN list : list[i].dt_txt = <<Today[1], hour>>]

\* The payload a block of the recommendations was made from.
BlockSource(block) ==
    CASE block = "current" -> lastCall.current
      [] block = "morning" -> ItemAtHour(9)
      [] block = "evening" -> ItemAtHour(18)

(***************************************************************************)
(* C20: in every block of the recommendations that is produced (current,   *)
(* morning, evening), umbrella is true exactly when the block's condition  *)
(* contains 'rain' or 'drizzle', whatever its temperature and wind.        *)
(***************************************************************************)
C20_UmbrellaOnRainOrDrizzle ==
    ( lastCall.op = "get_clothing_recommendations" /\ lastCall.ret # None ) =>
        \A block \in DOMAIN lastCall.ret[1] \cap {"current", "morning", "evening"} :
            lastCall.ret[1][block].umbrella
                = ( \/ Contains(ConditionOf(BlockSource(block)), <<"r", "a", "i", "n">>)
                    \/ Contains(ConditionOf(BlockSource(block)),
                                <<"d", "r", "i", "z", "z", "l", "e">>) )

\* all three blocks were produced: rain now at 32 degrees in strong wind with the
\* umbrella, a clear morning without, a drizzly evening with
C20_Witness ==
    /\ lastCall.op = "get_clothing_recommendations"
    /\ lastCall.ret # None
    /\ DOMAIN lastCall.ret[1] = {"current", "explanation", "morning", "evening"}
    /\ lastCall.current.main.temp = 320
    /\ lastCall.current.wind.speed = 120
    /\ ConditionOf(lastCall.current) = <<"r", "a", "i", "n">>
    /\ lastCall.ret[1].current.umbrella
    /\ ConditionOf(ItemAtHour(9)) = <<"c", "l", "e", "a", "r">>
    /\ ~lastCall.ret[1].morning.umbrella
    /\ ConditionOf(ItemAtHour(18)) = <<"d", "r", "i", "z", "z", "l", "e">>
    /\ lastCall.ret[1].evening.umbrella

\* The series is the upstream forecast with the offset of its hour added once to
\* temp and to feels_like of every interval.
OffsetOnce(series, from) ==
    /\ DOMAIN series.list = DOMAIN from.list
    /\ \A i \in DOMAIN from.list :
         LET offset == OffsetAt(from.list[i].dt_txt[2])
         IN  /\ series.list[i].main.temp = from.list[i].main.temp + offset
             /\ series.list[i].main.feels_like = from.list[i].main.feels_like + offset

(***************************************************************************)
(* C21: whatever enhanced-forecast and alerts requests were served, every  *)
(* enhanced series in the cache and every enhanced series returned is the  *)
(* upstream forecast of its city with the offset added exactly once, also  *)
(* when it was served from the cache or read by the alerts.                *)
(***************************************************************************)
C21_OffsetAppliedOnce ==
    /\ \A city \in Cities :
         EnhancedKey(city) \in DOMAIN cache
             => OffsetOnce(cache[EnhancedKey(city)].value, ForecastAt(city, 180))
    /\ ( lastCall.op = "/api/weather/enhanced-forecast" /\ lastCall.status = 200 )
           => OffsetOnce(lastCall.body, ForecastAt(lastCall.request.city, 180))

\* an enhanced forecast was served from the cache, without an upstream call: the
\* interval at 12h is at 18.5 degrees, the one at 3h at 9.7
C21_Witness ==
    /\ lastCall.op = "/api/weather/enhanced-forecast"
    /\ lastCall.status = 200
    /\ upstream = <<>>
    /\ EnhancedKey(<<"p">>) \in DOMAIN cache
    /\ lastCall.body.list[2].main.temp = 185
    /\ lastCall.body.list[4].main.feels_like = 97

\* The routes that make one cached fetch, and the cache key of each.
FetchRoutes ==
    { "/api/weather/current", "/api/weather/forecast", "/api/weather/enhanced-forecast" }

KeyOfRoute(route, city) ==
    CASE route = "/api/weather/current" -> CurrentKey(city)
      [] route = "/api/weather/forecast" -> ForecastKey(city)
      [] route = "/api/weather/enhanced-forecast" -> EnhancedKey(city)

(***************************************************************************)
(* C22, as stated: when get_current_weather, get_forecast or               *)
(* get_enhanced_forecast raises (the route answers 500), the cache holds   *)
(* exactly the entries it held before the call.                            *)
(***************************************************************************)
C22_FailureLeavesCache ==
    [][ ( lastCall'.op \in FetchRoutes /\ lastCall'.status = 500 ) => cache' = cache ]_vars

(***************************************************************************)
(* C22, amended: when one of the three calls raises, it stores nothing:    *)
(* the cache afterwards has no entry under the key of the call, every      *)
(* other entry is as before, and the entry the call removed, if any, was   *)
(* the expired one of its own key.                                         *)
(***************************************************************************)
C22_FailureStoresNothing ==
    [][ ( lastCall'.op \in FetchRoutes /\ lastCall'.status = 500 ) =>
            LET key == KeyOfRoute(lastCall'.op, lastCall'.request.city)
            IN  /\ cache' = Without(cache, key)
                /\ key \in DOMAIN cache => now - cache[key].timestamp >= expiry ]_vars

\* a fetch failed where the cache held an expired entry for the city: the entry
\* is gone and nothing stands in its place
C22_Witness ==
    /\ lastCall.op \in FetchRoutes
    /\ lastCall.status = 500
    /\ lastCall.evicted = {KeyOfRoute(lastCall.op, lastCall.request.city)}
    /\ KeyOfRoute(lastCall.op, lastCall.request.city) \notin DOMAIN cache

\* The request carries a city and the city is the empty string.
EmptyCity(op, request) ==
    IF op = "/api/weather/alerts"
    THEN request # None /\ "city" \in DOMAIN request[1] /\ request[1].city = <<>>
    ELSE "city" \in DOMAIN request /\ request.city = <<>>

(***************************************************************************)
(* C23: a request to any of the six endpoints whose city is present and    *)
(* empty is answered with status 400, and no upstream call was made for    *)
(* it.                                                                     *)
(***************************************************************************)
C23_EmptyCityRejected ==
    ( lastCall.op \in Endpoints /\ EmptyCity(lastCall.op, lastCall.request) ) =>
        /\ lastCall.status = 400
        /\ upstream = <<>>

====
